---- MODULE Spec2Model ----
(***************************************************************************)
(* Access-control boundary of the task-management backend:                 *)
(*   - RedisRateLimitGuard: sliding-window rate limiter over a Redis       *)
(*     sorted set, driven by one atomic Lua script (guards/redis-rate-     *)
(*     limit.guard.ts), and the global HttpExceptionFilter its rejection   *)
(*     passes through;                                                     *)
(*   - AuthService: refresh-token issue / rotation / logout / cleanup      *)
(*     over the refresh_tokens table (auth.service.ts).                    *)
(* Every store round trip of a call is one step, so calls interleave at    *)
(* exactly the points where the code awaits the store.                     *)
(***************************************************************************)
EXTENDS Integers, Sequences, FiniteSets, Bags, TLC

\* ------------------------------------------------------------------ bounds
\* Whole seconds the wall clock may advance.
MaxSeconds == 3
\* Guard invocations (rate-limit checks) started in one behaviour.
MaxRequests == 3
\* AuthService calls started in one behaviour.
MaxCalls == 4
\* Refresh-token lifetimes the wall clock may advance in the token engine.
MaxLifetimes == 2
\* Tasks created in one behaviour.
MaxTasks == 2
\* Requests one caller makes while it retries after a rejection.
MaxAttempts == 4

\* Date.now() counts milliseconds; policies count seconds (duration * 1000).
MsPerSecond == 1000

\* refreshTokenExpiry = 7 * 24 * 60 * 60 seconds.
RefreshTokenExpiry == 604800

\* Concurrent guard invocations (server instances / in-flight requests).
RProcs == {"r1", "r2"}

\* Concurrent AuthService calls.
TProcs == {"a1", "a2"}

\* Users that may register and log in.
Users == {"u1"}

\* Emails a login may present ("nobody" never registers) and passwords it may
\* present; every user registers with the password "secret".
Emails == Users \cup {"nobody"}
Passwords == {"secret", "guess"}

\* ------------------------------------------------------------ rate limiter
VARIABLES
    clock,      \* wall clock, milliseconds (Date.now() and the store's clock)
    zset,       \* store key -> members of its sorted set (member = score = now)
    expireAt,   \* store key -> clock value at which the key expires
    rpc,        \* guard invocation -> position in canActivate
    rreq,       \* guard invocation -> its request (endpoint, identity, now)
    rres,       \* guard invocation -> outcome of canActivate / HTTP response
    admitLog,   \* store key -> bag of the timestamps of admitted requests
    usedBy,     \* store key -> endpoints whose requests have used the key
    started     \* guard invocations started so far

rstate == <<zset, expireAt, rpc, rreq, rres, admitLog, usedBy, started>>
rvars == <<clock, rstate>>

\* ------------------------------------------------------------ token engine
VARIABLES
    rows,        \* refresh_tokens table: tokenHash -> row
    registered,  \* users table: the user ids that exist
    minted,      \* refresh tokens generated so far (generateSecureToken)
    families,    \* token families created so far (crypto.randomUUID)
    known,       \* refresh tokens that have been returned to a client
    tpc,         \* AuthService call -> position in its method
    treq,        \* AuthService call -> operation, presented token, entity read
    tres,        \* AuthService call -> its outcome
    rotations,   \* <<presented token, token returned>> of the successful refreshes
    caught,      \* token families revoked by reuse detection
    calls        \* AuthService calls started so far

tvars == <<rows, registered, minted, families, known, tpc, treq, tres, rotations,
           caught, calls>>

\* ---------------------------------------------------------- request pipeline
VARIABLES
    handled,     \* guard invocation -> the route handler of its request was invoked
    swept        \* the count the latest cleanupExpiredTokens returned

\* ------------------------------------------------------------ tasks service
VARIABLES
    tasks,       \* task id -> [userId, status]: the tasks table
    created,     \* number of task ids generated so far
    cache,       \* cache key -> [value, expires, stamp]: the Redis cache
    served,      \* what the latest call returned, when it was a findAll or getStatistics
    changes,     \* owner -> number of completed create/update/remove/updateStatus
    queued,      \* number of 'task-status-update' jobs added to the queue
    ops          \* number of TasksService calls made so far

kvars == <<tasks, created, cache, served, changes, queued, ops>>

\* What callers remember of the responses they were given.
VARIABLES
    retry,      \* the last 429 answer: its key, when it was sent, its retryAfter
    cutoff      \* per user: tokens generated when revokeAllUserTokens last completed
hvars == <<retry, cutoff>>

vars == <<rvars, tvars, handled, swept, kvars, hvars>>

\* RateLimitConfig of the routes under test.  blockDuration 0 and keyPrefix ""
\* stand for "not given" (both are falsy in `a || b`).  The two routes share
\* the key prefix "admin" (one quota pool) with different points; "report" has
\* the AUTH preset's shape (blockDuration = 2 * duration).
NoConfig == [points |-> 0, duration |-> 0, blockDuration |-> 0, keyPrefix |-> ""]

Endpoints == {"GET:/analytics", "GET:/report"}

\* Routes of a controller that carries a class-level policy: "batch" has a
\* route-level policy as well (the BATCH preset's shape), the list route has
\* none.  "GET:/plain" is a guarded route with no policy at all.
TaskRoutes == {"POST:/tasks/batch", "GET:/tasks"}
PlainRoutes == {"GET:/plain"}
AdminRoutes == {"GET:/admin/stats"}

\* A route whose policy blocks for a shorter time than its window lasts:
\* RateLimitConfig takes any blockDuration.
BurstRoutes == {"GET:/burst"}

\* A one-point route of the "admin" pool whose window is longer than the
\* pool's other windows.
AuditRoutes == {"GET:/admin/audit"}

\* The routes of AuthController: login carries the AUTH preset, the others
\* MODERATE; none has a keyPrefix.
AuthRoutes == {"POST:/auth/login", "POST:/auth/register", "POST:/auth/refresh",
               "POST:/auth/logout"}

Routes == Endpoints \cup TaskRoutes \cup PlainRoutes \cup AdminRoutes \cup AuthRoutes
              \cup BurstRoutes \cup AuditRoutes

\* reflector.get(RATE_LIMIT_KEY, context.getHandler()): the route-level policy,
\* NoConfig for `undefined`.  Points and durations are scaled down.
HandlerConfig(endpoint) ==
    CASE endpoint = "GET:/analytics" ->
            [points |-> 2, duration |-> 2, blockDuration |-> 0, keyPrefix |-> "admin"]
      [] endpoint = "GET:/report" ->
            [points |-> 1, duration |-> 2, blockDuration |-> 4, keyPrefix |-> "admin"]
      [] endpoint = "GET:/admin/stats" ->
            [points |-> 1, duration |-> 2, blockDuration |-> 0, keyPrefix |-> "admin"]
      [] endpoint = "POST:/tasks/batch" ->
            [points |-> 1, duration |-> 2, blockDuration |-> 4, keyPrefix |-> ""]
      [] endpoint = "POST:/auth/login" ->
            [points |-> 1, duration |-> 2, blockDuration |-> 4, keyPrefix |-> ""]
      [] endpoint = "GET:/admin/audit" ->
            [points |-> 1, duration |-> 3, blockDuration |-> 0, keyPrefix |-> "admin"]
      [] endpoint = "GET:/burst" ->
            [points |-> 2, duration |-> 2, blockDuration |-> 1, keyPrefix |-> ""]
      [] endpoint \in AuthRoutes \ {"POST:/auth/login"} ->
            [points |-> 2, duration |-> 2, blockDuration |-> 0, keyPrefix |-> ""]
      [] OTHER -> NoConfig

\* reflector.get(RATE_LIMIT_KEY, context.getClass()): the controller-level
\* policy, NoConfig for `undefined`.
ClassConfig(endpoint) ==
    IF endpoint \in TaskRoutes
    THEN [points |-> 2, duration |-> 3, blockDuration |-> 0, keyPrefix |-> ""]
    ELSE NoConfig

\* defaultConfig
DefaultConfig == [points |-> 100, duration |-> 60, blockDuration |-> 60,
                  keyPrefix |-> ""]

\* canActivate: `reflector.get(handler) || reflector.get(class) || defaultConfig`
PolicyOfClassFirst(endpoint) ==
    IF ClassConfig(endpoint) # NoConfig THEN ClassConfig(endpoint)
    ELSE IF HandlerConfig(endpoint) # NoConfig THEN HandlerConfig(endpoint)
    ELSE DefaultConfig
PolicyOf(endpoint) ==
    IF HandlerConfig(endpoint) # NoConfig THEN HandlerConfig(endpoint)
    ELSE IF ClassConfig(endpoint) # NoConfig THEN ClassConfig(endpoint)
    ELSE DefaultConfig

\* Strings the guard takes apart or hashes are sequences of character codes;
\* <<>> stands for both `undefined` and '' (the code tests them with `if (x)`
\* and `a || b`, which treat the two alike).
Absent == <<>>
Truthy(str) == str # Absent
Comma == 44
Space == 32
Unknown == <<117, 110, 107, 110, 111, 119, 110>>

\* `hash & hash`: the value as a signed 32-bit integer.  x is given as
\* hi * 2^16 + lo with 0 <= lo < 2^16.
ToInt32(hi, lo) == (((hi + 32768) % 65536) - 32768) * 65536 + lo

\* One round of hashString: `hash = ((hash << 5) - hash) + char; hash = hash &
\* hash`, i.e. 31 * hash + char wrapped to 32 bits (computed on 16-bit halves).
HashStep(hash, char) ==
    LET lo == 31 * (hash % 65536) + char
        hi == 31 * (hash \div 65536) + (lo \div 65536)
    IN  ToInt32(hi, lo % 65536)

RECURSIVE HashFrom(_, _, _)
HashFrom(str, i, hash) ==
    IF i > Len(str) THEN hash ELSE HashFrom(str, i + 1, HashStep(hash, str[i]))

\* Math.abs
Abs(x) == IF x < 0 THEN -x ELSE x

\* Number.prototype.toString(36): digits 0-9 then a-z, most significant first.
Digit36(d) == IF d < 10 THEN 48 + d ELSE 87 + d
RECURSIVE ToString36(_)
ToString36(n) ==
    IF n < 36 THEN <<Digit36(n)>> ELSE Append(ToString36(n \div 36), Digit36(n % 36))

\* hashString(str)
HashString(str) == ToString36(Abs(HashFrom(str, 1, 0)))

\* `.split(',')[0]`
FirstItem(str) ==
    LET commas == {i \in 1..Len(str) : str[i] = Comma}
    IN  IF commas = {} THEN str
        ELSE SubSeq(str, 1, (CHOOSE i \in commas : \A j \in commas : i <= j) - 1)

\* `.trim()` (spaces are the only whitespace in play)
Trim(str) ==
    LET inked == {i \in 1..Len(str) : str[i] # Space}
    IN  IF inked = {} THEN Absent
        ELSE SubSeq(str, CHOOSE i \in inked : \A j \in inked : i <= j,
                         CHOOSE i \in inked : \A j \in inked : i >= j)

\* getIdentifier, the address fallback chain: first x-forwarded-for item ||
\* x-real-ip || request.ip || connection.remoteAddress || 'unknown'.
ClientIp(request) ==
    IF Truthy(Trim(FirstItem(request.forwardedFor)))
    THEN Trim(FirstItem(request.forwardedFor))
    ELSE IF Truthy(request.realIp) THEN request.realIp
    ELSE IF Truthy(request.ip) THEN request.ip
    ELSE IF Truthy(request.remoteAddress) THEN request.remoteAddress
    ELSE Unknown

\* getIdentifier(request)
GetIdentifierKeyFirst(request) ==
    IF Truthy(request.apiKey) THEN <<"apikey", HashString(request.apiKey)>>
    ELSE IF Truthy(request.userId) THEN <<"user", request.userId>>
    ELSE <<"ip", HashString(ClientIp(request))>>
GetIdentifier(request) ==
    IF Truthy(request.userId) THEN <<"user", request.userId>>
    ELSE IF Truthy(request.apiKey) THEN <<"apikey", HashString(request.apiKey)>>
    ELSE <<"ip", HashString(ClientIp(request))>>

\* The requests that reach the guard: user id "u1" or none, x-api-key "k" or
\* none, x-forwarded-for " 1,2", ",2" or none, x-real-ip "7" or none,
\* request.ip "8" or none, remoteAddress "9" or none.
NoHttpRequest == [userId |-> Absent, apiKey |-> Absent, forwardedFor |-> Absent,
                  realIp |-> Absent, ip |-> Absent, remoteAddress |-> Absent]
Requests ==
    [userId : {Absent, <<117, 49>>},
     apiKey : {Absent, <<107>>},
     forwardedFor : {Absent, <<Space, 49, Comma, 50>>, <<Comma, 50>>},
     realIp : {Absent, <<55>>},
     ip : {Absent, <<56>>},
     remoteAddress : {Absent, <<57>>}]

\* The request of the authenticated user "u1" from address "8".
GuardedRequests == {[NoHttpRequest EXCEPT !.userId = <<117, 49>>, !.ip = <<56>>]}

\* Callers told apart by what they present: the user "u1", and the holders of
\* the API keys "k", "Aa" and "BB".
CallerRequests ==
    {[NoHttpRequest EXCEPT !.userId = <<117, 49>>]}
        \cup {[NoHttpRequest EXCEPT !.apiKey = key] :
                 key \in {<<107>>, <<65, 97>>, <<66, 66>>}}

\* What getIdentifier identifies the caller by, before any hashing.
RawIdentity(request) ==
    IF Truthy(request.userId) THEN <<"user", request.userId>>
    ELSE IF Truthy(request.apiKey) THEN <<"apikey", request.apiKey>>
    ELSE <<"ip", ClientIp(request)>>

Identifiers == {GetIdentifier(r) : r \in Requests \cup CallerRequests}

\* `${config.keyPrefix || endpoint}:${identifier}` (the constant "ratelimit:"
\* prefix is common to all keys).
RateKeyByRoute(config, endpoint, identifier) == <<endpoint, identifier>>
RateKey(config, endpoint, identifier) ==
    <<IF config.keyPrefix # "" THEN config.keyPrefix ELSE endpoint, identifier>>

RKeys == {RateKey(PolicyOf(e), e, i) : e \in Routes, i \in Identifiers}

\* config.blockDuration || config.duration
BlockSeconds(config) ==
    IF config.blockDuration # 0 THEN config.blockDuration ELSE config.duration

\* now - config.duration * 1000
WindowStart(now, config) == now - config.duration * MsPerSecond

\* The members of a key as the store sees them at `clock`: an expired key is gone.
Live(k) == IF clock >= expireAt[k] THEN {} ELSE zset[k]

\* ZREMRANGEBYSCORE key -inf windowStart: both ends inclusive.
Pruned(members, windowStart) == {m \in members : m > windowStart}

\* `if count < tonumber(limit)`
UnderLimitAlways(count, limit) == TRUE
UnderLimitLoose(count, limit) == count <= limit
UnderLimit(count, limit) == count < limit

\* ZADD key now now: score and member are both `now`.
ZAdd(members, now) == members \cup {now}

\* The Lua script, run atomically by the store at `clock`:
\* [members, expire, ret] after the call.
LuaScript(k, now, windowStart, limit, ttl) ==
    LET kept  == Pruned(Live(k), windowStart)
        count == Cardinality(kept)
    IN  IF UnderLimit(count, limit)
        THEN [members |-> ZAdd(kept, now),
              expire  |-> clock + ttl * MsPerSecond,
              ret     |-> count + 1]
        ELSE [members |-> kept,
              expire  |-> IF kept = {} THEN 0 ELSE expireAt[k],
              ret     |-> count]

\* `const allowed = count <= config.points`
AllowedStrict(count, config) == count < config.points
Allowed(count, config) == count <= config.points

\* TTL key: seconds to live rounded to the nearest second, -2 for no key.
RedisTtl(k) ==
    IF Live(k) = {} THEN -2
    ELSE (expireAt[k] - clock + (MsPerSecond \div 2)) \div MsPerSecond

\* `retryAfter: ttl > 0 ? ttl : config.blockDuration || config.duration`
RetryAfterNoFallback(ttl, config) == ttl
RetryAfter(ttl, config) == IF ttl > 0 THEN ttl ELSE BlockSeconds(config)

\* The body handed to `new HttpException(body, 429)`.
RateLimitException(ttl, config) ==
    [status   |-> 429,
     isObject |-> TRUE,
     response |-> [statusCode |-> 429,
                   message    |-> "Rate limit exceeded. Please try again later.",
                   retryAfter |-> RetryAfter(ttl, config)]]

\* HttpExceptionFilter.getErrorName
GetErrorName(status) ==
    CASE status = 400 -> "Bad Request"
      [] status = 401 -> "Unauthorized"
      [] status = 403 -> "Forbidden"
      [] status = 404 -> "Not Found"
      [] status = 409 -> "Conflict"
      [] status = 422 -> "Unprocessable Entity"
      [] status = 429 -> "Too Many Requests"
      [] status = 500 -> "Internal Server Error"
      [] status = 502 -> "Bad Gateway"
      [] status = 503 -> "Service Unavailable"
      [] status = 504 -> "Gateway Timeout"
      [] OTHER -> "Error"

\* HttpExceptionFilter.buildErrorResponse, object branch: only `message` and
\* `error` of the exception's body are copied into the response.
BuildErrorResponse(status, exceptionResponse, path, requestId) ==
    [success    |-> FALSE,
     statusCode |-> status,
     message    |-> IF "message" \in DOMAIN exceptionResponse
                       /\ exceptionResponse.message # ""
                    THEN exceptionResponse.message
                    ELSE "An error occurred",
     error      |-> IF "error" \in DOMAIN exceptionResponse
                    THEN exceptionResponse.error
                    ELSE GetErrorName(status),
     path       |-> path,
     timestamp  |-> clock,
     requestId  |-> requestId]

\* HttpExceptionFilter.catch: response.status(status).json(errorResponse)
FilterCatch(exception, path, requestId) ==
    [status |-> exception.status,
     body   |-> BuildErrorResponse(exception.status, exception.response, path, requestId)]

NoRequest == [endpoint |-> "", request |-> NoHttpRequest, identifier |-> <<>>,
              now |-> 0]
\* outcome: "none" | "allowed" | "rejected"; storeError: the store call threw;
\* ran: the script has run; ret: its return value; free: slots free in the
\* window when it ran (points - count after pruning); inWindow / older: stored
\* entries not older / older than windowStart when it ran; ttl: the TTL read on
\* rejection; exception: the HttpException thrown; http: the response sent.
NoResult == [outcome |-> "none", storeError |-> FALSE, ran |-> FALSE, ret |-> 0,
             free |-> 0, inWindow |-> 0, older |-> 0, ttl |-> 0,
             exception |-> [status |-> 0], http |-> [status |-> 0]]

RConfig(p) == PolicyOf(rreq[p].endpoint)
RKey(p) == RateKey(RConfig(p), rreq[p].endpoint, rreq[p].identifier)

RateInit ==
    /\ clock = 0
    /\ zset = [k \in RKeys |-> {}]
    /\ expireAt = [k \in RKeys |-> 0]
    /\ rpc = [p \in RProcs |-> "idle"]
    /\ rreq = [p \in RProcs |-> NoRequest]
    /\ rres = [p \in RProcs |-> NoResult]
    /\ admitLog = [k \in RKeys |-> EmptyBag]
    /\ usedBy = [k \in RKeys |-> {}]
    /\ started = 0

\* The wall clock advances by one second.
TickSecond ==
    /\ clock \div MsPerSecond < MaxSeconds
    /\ clock' = clock + MsPerSecond
    /\ UNCHANGED <<zset, expireAt, rpc, rreq, rres, admitLog, usedBy, started, tvars>>

\* canActivate up to the script call: config, key, `const now = Date.now()`.
GuardBeginWithin(p, endpoint, request, max) ==
    /\ rpc[p] = "idle"
    /\ started < max
    /\ started' = started + 1
    /\ rreq' = [rreq EXCEPT ![p] = [endpoint |-> endpoint, request |-> request,
                                    identifier |-> GetIdentifier(request),
                                    now |-> clock]]
    /\ rres' = [rres EXCEPT ![p] = NoResult]
    /\ rpc' = [rpc EXCEPT ![p] = "eval"]
    /\ usedBy' = LET k == RateKey(PolicyOf(endpoint), endpoint,
                                  GetIdentifier(request))
                 IN  [usedBy EXCEPT ![k] = @ \cup {endpoint}]
    /\ UNCHANGED <<clock, zset, expireAt, admitLog, tvars>>

GuardBegin(p, endpoint, request) ==
    GuardBeginWithin(p, endpoint, request, MaxRequests)

\* canActivate returns true.  admitLog records the admissions the script's
\* count decided (not those of the fail-open path).
Admit(p, res) ==
    /\ rres' = [rres EXCEPT ![p] = [res EXCEPT !.outcome = "allowed"]]
    /\ admitLog' = IF res.storeError THEN admitLog
                   ELSE [admitLog EXCEPT ![RKey(p)] = @ (+) SetToBag({rreq[p].now})]
    /\ rpc' = [rpc EXCEPT ![p] = "done"]

\* redis.eval succeeds: the script runs atomically, then
\* `allowed = count <= config.points`; an allowed request returns true.
GuardEval(p) ==
    /\ rpc[p] = "eval"
    /\ LET cfg == RConfig(p)
           k   == RKey(p)
           ws  == WindowStart(rreq[p].now, cfg)
           out == LuaScript(k, rreq[p].now, ws, cfg.points, BlockSeconds(cfg))
           res == [rres[p] EXCEPT
                     !.ran = TRUE,
                     !.ret = out.ret,
                     !.free = cfg.points - Cardinality(Pruned(Live(k), ws)),
                     !.inWindow = Cardinality({m \in Live(k) : m >= ws}),
                     !.older = Cardinality({m \in Live(k) : m < ws})]
       IN  /\ zset' = [zset EXCEPT ![k] = out.members]
           /\ expireAt' = [expireAt EXCEPT ![k] = out.expire]
           /\ IF Allowed(out.ret, cfg)
              THEN Admit(p, res)
              ELSE /\ rres' = [rres EXCEPT ![p] = res]
                   /\ rpc' = [rpc EXCEPT ![p] = "ttl"]
                   /\ UNCHANGED admitLog
    /\ UNCHANGED <<clock, rreq, usedBy, started, tvars>>

\* What canActivate's catch block does with an error that is no HttpException.
FailClosed(p, res) ==
    /\ rres' = [rres EXCEPT ![p] =
                   [res EXCEPT !.outcome = "rejected",
                               !.http = [status |-> 500]]]
    /\ rpc' = [rpc EXCEPT ![p] = "done"]
    /\ UNCHANGED admitLog
FailOpen(p, res) == Admit(p, res)

\* redis.eval throws (store down, script error, timeout): checkRateLimit
\* rethrows, canActivate's catch returns true.
GuardEvalError(p) ==
    /\ rpc[p] = "eval"
    /\ FailOpen(p, [rres[p] EXCEPT !.storeError = TRUE])
    /\ UNCHANGED <<clock, zset, expireAt, rreq, usedBy, started, tvars>>

\* Not allowed: `await this.redis.ttl(key)` returns, the 429 is thrown,
\* rethrown by the catch block and rendered by the global exception filter.
GuardTtl(p) ==
    /\ rpc[p] = "ttl"
    /\ LET ttl == RedisTtl(RKey(p))
           exc == RateLimitException(ttl, RConfig(p))
       IN  rres' = [rres EXCEPT ![p] =
                       [@ EXCEPT !.outcome = "rejected",
                                 !.ttl = ttl,
                                 !.exception = exc,
                                 !.http = FilterCatch(exc, rreq[p].endpoint, p)]]
    /\ rpc' = [rpc EXCEPT ![p] = "done"]
    /\ UNCHANGED <<clock, zset, expireAt, rreq, admitLog, usedBy, started, tvars>>

\* Not allowed, and redis.ttl throws inside the same try block.
GuardTtlError(p) ==
    /\ rpc[p] = "ttl"
    /\ FailOpen(p, [rres[p] EXCEPT !.storeError = TRUE])
    /\ UNCHANGED <<clock, zset, expireAt, rreq, usedBy, started, tvars>>

\* The response has been sent; the worker takes the next request.
GuardEnd(p) ==
    /\ rpc[p] = "done"
    /\ rpc' = [rpc EXCEPT ![p] = "idle"]
    /\ rreq' = [rreq EXCEPT ![p] = NoRequest]
    /\ rres' = [rres EXCEPT ![p] = NoResult]
    /\ UNCHANGED <<clock, zset, expireAt, admitLog, usedBy, started, tvars>>

RateNext ==
    \/ TickSecond /\ UNCHANGED <<handled, swept, kvars, hvars>>
    \/ \E p \in RProcs, e \in Endpoints, r \in GuardedRequests : GuardBegin(p, e, r) /\ UNCHANGED <<handled, swept, kvars, hvars>>
    \/ \E p \in RProcs : GuardEval(p) /\ UNCHANGED <<handled, swept, kvars, hvars>>
    \/ \E p \in RProcs : GuardEvalError(p) /\ UNCHANGED <<handled, swept, kvars, hvars>>
    \/ \E p \in RProcs : GuardTtl(p) /\ UNCHANGED <<handled, swept, kvars, hvars>>
    \/ \E p \in RProcs : GuardTtlError(p) /\ UNCHANGED <<handled, swept, kvars, hvars>>
    \/ \E p \in RProcs : GuardEnd(p) /\ UNCHANGED <<handled, swept, kvars, hvars>>

\* One worker serves requests of every shape on one route, one at a time.
IdentNext ==
    \/ \E r \in Requests : GuardBegin("r1", "GET:/analytics", r) /\ UNCHANGED <<handled, swept, kvars, hvars>>
    \/ GuardEval("r1") /\ UNCHANGED <<handled, swept, kvars, hvars>>
    \/ GuardEnd("r1") /\ UNCHANGED <<handled, swept, kvars, hvars>>

\* One worker serves the authenticated user on the routes that differ in
\* where their policy comes from and in their key prefix.
PolicyRoutes == Endpoints \cup TaskRoutes \cup PlainRoutes \cup AdminRoutes
PolicyNext ==
    \/ TickSecond /\ UNCHANGED <<handled, swept, kvars, hvars>>
    \/ \E e \in PolicyRoutes, r \in GuardedRequests : GuardBegin("r1", e, r) /\ UNCHANGED <<handled, swept, kvars, hvars>>
    \/ GuardEval("r1") /\ UNCHANGED <<handled, swept, kvars, hvars>>
    \/ GuardTtl("r1") /\ UNCHANGED <<handled, swept, kvars, hvars>>
    \/ GuardEnd("r1") /\ UNCHANGED <<handled, swept, kvars, hvars>>

\* Date.now() and the store's clock count milliseconds: the clock advances by
\* a fraction of a second.
ClockStep == MsPerSecond \div 4
TickFraction ==
    /\ clock + ClockStep <= MaxSeconds * MsPerSecond
    /\ clock' = clock + ClockStep
    /\ UNCHANGED <<zset, expireAt, rpc, rreq, rres, admitLog, usedBy, started, tvars>>

\* A caller of the "admin" pool who obeys retryAfter: the 429 answer is
\* remembered until the next request on its key is evaluated.
RetryRoutes == {"GET:/analytics"} \cup AuditRoutes
NoRetry == [key |-> <<>>, at |-> 0, after |-> 0]
RetryInit == retry = NoRetry /\ cutoff = [u \in Users |-> 0]
RetryNext ==
    \/ TickFraction /\ UNCHANGED <<handled, swept, kvars, hvars>>
    \/ \E e \in RetryRoutes, r \in GuardedRequests :
          GuardBeginWithin("r1", e, r, MaxAttempts) /\ UNCHANGED <<handled, swept, kvars, hvars>>
    \/ GuardEval("r1")
          /\ retry' = (IF retry.key = RKey("r1") THEN NoRetry ELSE retry)
          /\ UNCHANGED <<handled, swept, kvars, cutoff>>
    \/ GuardTtl("r1")
          /\ retry' = [key |-> RKey("r1"), at |-> clock,
                       after |-> RetryAfter(RedisTtl(RKey("r1")), RConfig("r1"))]
          /\ UNCHANGED <<handled, swept, kvars, cutoff>>
    \/ GuardEnd("r1") /\ UNCHANGED <<handled, swept, kvars, hvars>>

\* Two workers serve callers of different identities on one route.
IsolationNext ==
    \/ TickSecond /\ UNCHANGED <<handled, swept, kvars, hvars>>
    \/ \E p \in RProcs, r \in CallerRequests :
          GuardBegin(p, "GET:/analytics", r) /\ UNCHANGED <<handled, swept, kvars, hvars>>
    \/ \E p \in RProcs : GuardEval(p) /\ UNCHANGED <<handled, swept, kvars, hvars>>
    \/ \E p \in RProcs : GuardEnd(p) /\ UNCHANGED <<handled, swept, kvars, hvars>>

\* One worker on the routes of the "admin" pool and on the route whose block
\* time is shorter than its window.
ExpiryRoutes == Endpoints \cup BurstRoutes
ExpiryNext ==
    \/ TickSecond /\ UNCHANGED <<handled, swept, kvars, hvars>>
    \/ \E e \in ExpiryRoutes, r \in GuardedRequests : GuardBegin("r1", e, r) /\ UNCHANGED <<handled, swept, kvars, hvars>>
    \/ GuardEval("r1") /\ UNCHANGED <<handled, swept, kvars, hvars>>
    \/ GuardTtl("r1") /\ UNCHANGED <<handled, swept, kvars, hvars>>
    \/ GuardEnd("r1") /\ UNCHANGED <<handled, swept, kvars, hvars>>

\* ------------------------------------------------------------ token engine
\* hashToken: sha256 of the token, one-way and collision-free on the tokens
\* in play.  Tokens are numbered in the order generateSecureToken makes them;
\* 0 is a string that was never issued.
HashToken(token) == <<"sha256", token>>
NullHash == <<>>
NullDate == -1

\* new Date(), in whole seconds: the dates of the token table are compared at
\* the resolution at which the token engine's clock advances.
Now == clock \div MsPerSecond

NoRow == [tokenHash |-> NullHash, userId |-> "", expiresAt |-> 0,
          isRevoked |-> FALSE, revokedAt |-> NullDate, tokenFamily |-> 0,
          replacedByToken |-> NullHash]

\* RefreshToken.isExpired: expiresAt <= new Date()
IsExpired(row) == row.expiresAt <= Now

\* RefreshToken.isValid: usable = not revoked and not expired
IsValid(row) == ~row.isRevoked /\ row.expiresAt > Now

\* repository.findOne({where: {tokenHash}}): the row, or NoRow for null.
FindOne(tokenHash) == IF tokenHash \in DOMAIN rows THEN rows[tokenHash] ELSE NoRow

\* repository.save(entity): update the row with the entity's values, insert
\* it when the table has no such row.
Save(table, entity) ==
    [h \in DOMAIN table \cup {entity.tokenHash} |->
        IF h = entity.tokenHash THEN entity ELSE table[h]]

\* generateTokenPair: `tokenFamily || crypto.randomUUID()`; a random UUID is
\* one no earlier call has drawn.
FamilyOfFirst(tokenFamily) == IF tokenFamily # 0 THEN tokenFamily ELSE 1
FamilyOf(tokenFamily) == IF tokenFamily # 0 THEN tokenFamily ELSE families + 1

\* generateTokenPair: the entity created for a new refresh token.
NewRowOwnFamily(token, userId, tokenFamily) ==
    [tokenHash |-> HashToken(token), userId |-> userId,
     expiresAt |-> Now + RefreshTokenExpiry,
     isRevoked |-> FALSE, revokedAt |-> NullDate,
     tokenFamily |-> families + 1, replacedByToken |-> NullHash]
NewRow(token, userId, tokenFamily) ==
    [tokenHash |-> HashToken(token), userId |-> userId,
     expiresAt |-> Now + RefreshTokenExpiry,
     isRevoked |-> FALSE, revokedAt |-> NullDate,
     tokenFamily |-> FamilyOf(tokenFamily), replacedByToken |-> NullHash]

\* generateTokenPair(userId, ..., tokenFamily): generate the next token and
\* save its row.
GenerateTokenPair(userId, tokenFamily) ==
    /\ minted' = minted + 1
    /\ families' = IF tokenFamily # 0 THEN families ELSE families + 1
    /\ rows' = Save(rows, NewRow(minted + 1, userId, tokenFamily))

\* refreshTokens: the presented entity after `isRevoked = true; revokedAt =
\* new Date(); replacedByToken = hashToken(tokens.refreshToken)`.
RotatedKeepUsable(entity, newToken) ==
    [entity EXCEPT !.replacedByToken = HashToken(newToken)]
Rotated(entity, newToken) ==
    [entity EXCEPT !.isRevoked = TRUE, !.revokedAt = Now,
                   !.replacedByToken = HashToken(newToken)]

\* logout: `isRevoked = true; revokedAt = new Date()`.
LoggedOutUnmarked(entity) == entity
LoggedOut(entity) == [entity EXCEPT !.isRevoked = TRUE, !.revokedAt = Now]

\* repository.update({<column>: value, isRevoked: false},
\*                   {isRevoked: true, revokedAt: new Date()})
RevokeWhereAll(table, column, value) ==
    [h \in DOMAIN table |->
        IF table[h][column] = value
        THEN [table[h] EXCEPT !.isRevoked = TRUE, !.revokedAt = Now]
        ELSE table[h]]
RevokeWhere(table, column, value) ==
    [h \in DOMAIN table |->
        IF table[h][column] = value /\ ~table[h].isRevoked
        THEN [table[h] EXCEPT !.isRevoked = TRUE, !.revokedAt = Now]
        ELSE table[h]]

\* revokeTokenFamily(tokenFamily)
RevokeNothing(table, tokenFamily) == table
RevokeTokenFamily(table, tokenFamily) == RevokeWhere(table, "tokenFamily", tokenFamily)

\* logout: `await this.refreshTokenRepository.save(storedToken)` on the
\* entity marked revoked.
SaveLoggedOutAndFamily(table, entity) ==
    RevokeWhere(Save(table, LoggedOut(entity)), "tokenFamily", entity.tokenFamily)
SaveLoggedOut(table, entity) == Save(table, LoggedOut(entity))

\* repository.delete({expiresAt: LessThan(new Date())})
SweptEarly(table) ==
    [h \in {x \in DOMAIN table : ~(table[x].expiresAt < Now + RefreshTokenExpiry)} |->
        table[h]]
Swept(table) == [h \in {x \in DOMAIN table : ~(table[x].expiresAt < Now)} |-> table[h]]

\* `result.affected || 0` of that delete: the number of rows it removed.
Affected(table) == Cardinality(DOMAIN table) - Cardinality(DOMAIN Swept(table))

\* op: "" | "refresh" | "logout"; token: the presented token; entity: the row
\* findOne returned; newToken: the token generateTokenPair made;
\* rotatedBefore: a refresh with this token had succeeded before the lookup;
\* caughtBefore: reuse had been detected in the row's family before the lookup;
\* usable / expired: the row read was valid / past its expiry at the lookup.
NoCall == [op |-> "", token |-> 0, found |-> FALSE, entity |-> NoRow,
           newToken |-> 0, rotatedBefore |-> FALSE, caughtBefore |-> FALSE,
           usable |-> FALSE, expired |-> FALSE, storeError |-> FALSE,
           email |-> "", password |-> ""]
\* email / password: the credentials a login presented (then `found` tells
\* whether findByEmail returned a user).
\* kind: "none" | "ok" | "notfound" | "expired" | "reused" | "loggedout" |
\* "badcredentials" |
\* "error" (an exception that is no HttpException left the method)
NoOutcome == [kind |-> "none", refreshToken |-> 0]

\* new UnauthorizedException(message): status 401, body {statusCode, message,
\* error: 'Unauthorized'}.
UnauthorizedException(message) ==
    [status   |-> 401,
     isObject |-> TRUE,
     response |-> [statusCode |-> 401, message |-> message, error |-> "Unauthorized"]]

\* refreshTokens: the exception thrown for each kind of failure.
RefreshException(kind) ==
    CASE kind = "notfound" -> UnauthorizedException("Invalid refresh token")
      [] kind = "reused" ->
            UnauthorizedException("Token has been revoked. Please login again.")
      [] kind = "expired" -> UnauthorizedException("Refresh token expired")

\* The ways a refresh is refused.
RefreshFailures == {"notfound", "reused", "expired"}

\* The response the global exception filter sends for a refused refresh.
RefreshResponse(p) == FilterCatch(RefreshException(tres[p].kind), "/auth/refresh", p)

\* Successful rotations of token t so far.
SuccessorsOf(t) == {x \in 1..minted : <<t, x>> \in rotations}

\* A call starts.
StartCall == calls < MaxCalls /\ calls' = calls + 1

TokenInit ==
    /\ rows = [h \in {} |-> NoRow]
    /\ registered = {}
    /\ minted = 0
    /\ families = 0
    /\ known = {}
    /\ tpc = [p \in TProcs |-> "idle"]
    /\ treq = [p \in TProcs |-> NoCall]
    /\ tres = [p \in TProcs |-> NoOutcome]
    /\ rotations = {}
    /\ caught = {}
    /\ calls = 0

\* The wall clock advances by one refresh-token lifetime.
TickLifetime ==
    /\ Now \div RefreshTokenExpiry < MaxLifetimes
    /\ clock' = clock + RefreshTokenExpiry * MsPerSecond
    /\ UNCHANGED <<rstate, tvars>>

\* login with valid credentials: a token pair in a new family.
Login(u) ==
    /\ u \in registered
    /\ StartCall
    /\ GenerateTokenPair(u, 0)
    /\ known' = known \cup {minted + 1}
    /\ UNCHANGED <<clock, rstate, registered, tpc, treq, tres, rotations, caught>>

\* register with a new email: the user is created, then a token pair in a
\* new family.
Register(u) ==
    /\ u \notin registered
    /\ StartCall
    /\ registered' = registered \cup {u}
    /\ GenerateTokenPair(u, 0)
    /\ known' = known \cup {minted + 1}
    /\ UNCHANGED <<clock, rstate, tpc, treq, tres, rotations, caught>>

Finish(p, kind, refreshToken) ==
    /\ tres' = [tres EXCEPT ![p] = [kind |-> kind, refreshToken |-> refreshToken]]
    /\ tpc' = [tpc EXCEPT ![p] = "done"]

\* bcrypt.compare(password, user.password)
PasswordValid(email, password) == password = "secret"

\* login: the exception thrown when findByEmail returns no user / when the
\* password does not match.
NoSuchAccountTold == UnauthorizedException("No account for this email")
NoSuchAccount == UnauthorizedException("Invalid credentials")
WrongPassword == UnauthorizedException("Invalid credentials")

\* login up to the credential checks, for credentials that are refused: no
\* user with that email, or a user and a password that does not match.
LoginRejected(p, email, password) ==
    /\ tpc[p] = "idle"
    /\ email \notin registered \/ ~PasswordValid(email, password)
    /\ StartCall
    /\ treq' = [treq EXCEPT ![p] =
                  [NoCall EXCEPT !.op = "login", !.email = email,
                                 !.password = password,
                                 !.found = email \in registered]]
    /\ Finish(p, "badcredentials", 0)
    /\ UNCHANGED <<clock, rstate, rows, registered, minted, families, known,
                   rotations, caught>>

\* The exception a refused login threw, and the response the global exception
\* filter sends for it.
LoginException(p) == IF treq[p].found THEN WrongPassword ELSE NoSuchAccount
LoginResponse(p) == FilterCatch(LoginException(p), "/auth/login", p)

\* refreshTokens up to the checks on the stored token: findOne, not found ->
\* 401; revoked -> family revocation next; expired -> 401; else rotate.
RefreshFind(p, token) ==
    /\ tpc[p] = "idle"
    /\ token \in known \cup {0}
    /\ StartCall
    /\ LET h == HashToken(token)
           e == FindOne(h)
           found == h \in DOMAIN rows
       IN  /\ treq' = [treq EXCEPT ![p] =
                         [op |-> "refresh", token |-> token, found |-> found,
                          entity |-> e, newToken |-> 0,
                          rotatedBefore |-> SuccessorsOf(token) # {},
                          caughtBefore |-> found /\ e.tokenFamily \in caught,
                          usable |-> found /\ IsValid(e),
                          expired |-> found /\ IsExpired(e),
                          storeError |-> FALSE, email |-> "", password |-> ""]]
           /\ IF ~found THEN Finish(p, "notfound", 0)
              ELSE IF e.isRevoked
                   THEN tpc' = [tpc EXCEPT ![p] = "revokeFamily"] /\ UNCHANGED tres
              ELSE IF IsExpired(e) THEN Finish(p, "expired", 0)
              ELSE tpc' = [tpc EXCEPT ![p] = "mint"] /\ UNCHANGED tres
    /\ UNCHANGED <<clock, rstate, rows, registered, minted, families, known,
                   rotations, caught>>

\* refreshTokens, reuse detected: `await revokeTokenFamily(...)`, then 401.
RefreshRevokeFamily(p) ==
    /\ tpc[p] = "revokeFamily"
    /\ rows' = RevokeTokenFamily(rows, treq[p].entity.tokenFamily)
    /\ caught' = caught \cup {treq[p].entity.tokenFamily}
    /\ Finish(p, "reused", 0)
    /\ UNCHANGED <<clock, rstate, registered, minted, families, known, treq,
                   rotations, calls>>

\* refreshTokens: `await generateTokenPair(..., storedToken.tokenFamily)`.
RefreshMint(p) ==
    /\ tpc[p] = "mint"
    /\ GenerateTokenPair(treq[p].entity.userId, treq[p].entity.tokenFamily)
    /\ treq' = [treq EXCEPT ![p].newToken = minted + 1]
    /\ tpc' = [tpc EXCEPT ![p] = "save"]
    /\ UNCHANGED <<clock, rstate, registered, known, tres, rotations, caught, calls>>

\* refreshTokens: the presented entity is marked revoked and saved; the new
\* pair is returned.
RefreshSave(p) ==
    /\ tpc[p] = "save"
    /\ rows' = Save(rows, Rotated(treq[p].entity, treq[p].newToken))
    /\ known' = known \cup {treq[p].newToken}
    /\ rotations' = rotations \cup {<<treq[p].token, treq[p].newToken>>}
    /\ Finish(p, "ok", treq[p].newToken)
    /\ UNCHANGED <<clock, rstate, registered, minted, families, treq, caught, calls>>

\* logout: findOne; nothing to do when the token is unknown (logout returns
\* void either way).
LogoutFind(p, token) ==
    /\ tpc[p] = "idle"
    /\ token \in known \cup {0}
    /\ StartCall
    /\ LET h == HashToken(token)
           found == h \in DOMAIN rows
       IN  /\ treq' = [treq EXCEPT ![p] =
                         [NoCall EXCEPT !.op = "logout", !.token = token,
                                        !.found = found, !.entity = FindOne(h)]]
           /\ IF found
              THEN tpc' = [tpc EXCEPT ![p] = "logoutSave"] /\ UNCHANGED tres
              ELSE Finish(p, "loggedout", 0)
    /\ UNCHANGED <<clock, rstate, rows, registered, minted, families, known,
                   rotations, caught>>

\* logout: the entity is marked revoked and saved.
LogoutSave(p) ==
    /\ tpc[p] = "logoutSave"
    /\ rows' = SaveLoggedOut(rows, treq[p].entity)
    /\ Finish(p, "loggedout", 0)
    /\ UNCHANGED <<clock, rstate, registered, minted, families, known, treq,
                   rotations, caught, calls>>

\* revokeAllUserTokens(userId): one UPDATE over the user's unrevoked rows.
RevokeAllUserTokens(u) ==
    /\ u \in registered
    /\ StartCall
    /\ rows' = RevokeWhere(rows, "userId", u)
    /\ UNCHANGED <<clock, rstate, registered, minted, families, known, tpc, treq,
                   tres, rotations, caught>>

\* cleanupExpiredTokens: one DELETE of the rows past expiry.
CleanupExpiredTokens ==
    /\ StartCall
    /\ rows' = Swept(rows)
    /\ swept' = Affected(rows)
    /\ UNCHANGED <<clock, rstate, registered, minted, families, known, tpc, treq,
                   tres, rotations, caught>>

\* The response has been sent; the worker takes the next call.
CallEnd(p) ==
    /\ tpc[p] = "done"
    /\ tpc' = [tpc EXCEPT ![p] = "idle"]
    /\ treq' = [treq EXCEPT ![p] = NoCall]
    /\ tres' = [tres EXCEPT ![p] = NoOutcome]
    /\ UNCHANGED <<clock, rstate, rows, registered, minted, families, known,
                   rotations, caught, calls>>

\* One step of call p.
CallStep(p) ==
    \/ \E t \in 0..MaxCalls : RefreshFind(p, t)
    \/ RefreshRevokeFamily(p)
    \/ RefreshMint(p)
    \/ RefreshSave(p)
    \/ \E t \in 0..MaxCalls : LogoutFind(p, t)
    \/ LogoutSave(p)
    \/ CallEnd(p)

TokenNext ==
    \/ TickLifetime /\ UNCHANGED <<handled, swept, kvars, hvars>>
    \/ \E u \in Users : Login(u) /\ UNCHANGED <<handled, swept, kvars, hvars>>
    \/ \E u \in Users : Register(u) /\ UNCHANGED <<handled, swept, kvars, hvars>>
    \/ \E u \in Users : RevokeAllUserTokens(u) /\ UNCHANGED <<handled, swept, kvars, hvars>>
    \/ CleanupExpiredTokens /\ UNCHANGED <<handled, kvars, hvars>>
    \/ \E p \in TProcs : CallStep(p) /\ UNCHANGED <<handled, swept, kvars, hvars>>

\* The token engine with a note of when each user's tokens were last revoked
\* together.
RevokeNext ==
    \/ TickLifetime /\ UNCHANGED <<handled, swept, kvars, hvars>>
    \/ \E u \in Users : Login(u) /\ UNCHANGED <<handled, swept, kvars, hvars>>
    \/ \E u \in Users : Register(u) /\ UNCHANGED <<handled, swept, kvars, hvars>>
    \/ \E u \in Users :
          /\ RevokeAllUserTokens(u)
          /\ cutoff' = [cutoff EXCEPT ![u] = minted]
          /\ UNCHANGED <<handled, swept, kvars, retry>>
    \/ CleanupExpiredTokens /\ UNCHANGED <<handled, kvars, hvars>>
    \/ \E p \in TProcs : CallStep(p) /\ UNCHANGED <<handled, swept, kvars, hvars>>

\* A store call of refreshTokens rejects (store unreachable, timeout): no
\* try/catch surrounds the awaits, so the error leaves the method and no
\* token pair is returned.
Swallow(p, call) ==
    /\ treq' = [treq EXCEPT ![p] = [call EXCEPT !.storeError = TRUE]]
    /\ Finish(p, "ok", call.newToken)
Propagate(p, call) ==
    /\ treq' = [treq EXCEPT ![p] = [call EXCEPT !.storeError = TRUE]]
    /\ Finish(p, "error", 0)

\* refreshTokens: findOne rejects.
RefreshFindError(p, token) ==
    /\ tpc[p] = "idle"
    /\ token \in known \cup {0}
    /\ StartCall
    /\ Propagate(p, [NoCall EXCEPT !.op = "refresh", !.token = token])
    /\ UNCHANGED <<clock, rstate, rows, registered, minted, families, known,
                   rotations, caught>>

\* refreshTokens: the UPDATE of revokeTokenFamily rejects; on a timeout the
\* store may have applied it all the same.
RefreshRevokeFamilyError(p, applied) ==
    /\ tpc[p] = "revokeFamily"
    /\ rows' = IF applied THEN RevokeTokenFamily(rows, treq[p].entity.tokenFamily)
               ELSE rows
    /\ caught' = IF applied THEN caught \cup {treq[p].entity.tokenFamily} ELSE caught
    /\ Propagate(p, treq[p])
    /\ UNCHANGED <<clock, rstate, registered, minted, families, known, rotations,
                   calls>>

\* refreshTokens: the save inside generateTokenPair rejects; on a timeout the
\* successor row may have been inserted all the same.
RefreshMintError(p, applied) ==
    /\ tpc[p] = "mint"
    /\ IF applied
       THEN /\ GenerateTokenPair(treq[p].entity.userId, treq[p].entity.tokenFamily)
            /\ Propagate(p, [treq[p] EXCEPT !.newToken = minted + 1])
       ELSE /\ UNCHANGED <<rows, minted, families>>
            /\ Propagate(p, treq[p])
    /\ UNCHANGED <<clock, rstate, registered, known, rotations, caught, calls>>

\* refreshTokens: the save of the presented entity rejects; on a timeout the
\* row may have been written all the same.
RefreshSaveError(p, applied) ==
    /\ tpc[p] = "save"
    /\ rows' = IF applied THEN Save(rows, Rotated(treq[p].entity, treq[p].newToken))
               ELSE rows
    /\ Propagate(p, treq[p])
    /\ UNCHANGED <<clock, rstate, registered, minted, families, known, rotations,
                   caught, calls>>

\* One failing store call of call p.
StoreFault(p) ==
    \/ \E t \in 0..MaxCalls : RefreshFindError(p, t)
    \/ \E applied \in BOOLEAN : RefreshRevokeFamilyError(p, applied)
    \/ \E applied \in BOOLEAN : RefreshMintError(p, applied)
    \/ \E applied \in BOOLEAN : RefreshSaveError(p, applied)

\* No call other than p is in flight.
Alone(p) == \A q \in TProcs \ {p} : tpc[q] = "idle"
NoneInFlight == \A q \in TProcs : tpc[q] \in {"idle", "done"}

\* Calls run one after another: a call starts only when no other is in flight.
\* The clock's step is a whole token lifetime, longer than any call: it
\* advances between calls.
TokenSeqNext ==
    \/ NoneInFlight /\ TickLifetime /\ UNCHANGED <<handled, swept, kvars, hvars>>
    \/ \E u \in Users : NoneInFlight /\ Login(u) /\ UNCHANGED <<handled, swept, kvars, hvars>>
    \/ \E u \in Users : NoneInFlight /\ Register(u) /\ UNCHANGED <<handled, swept, kvars, hvars>>
    \/ \E u \in Users : NoneInFlight /\ RevokeAllUserTokens(u) /\ UNCHANGED <<handled, swept, kvars, hvars>>
    \/ NoneInFlight /\ CleanupExpiredTokens /\ UNCHANGED <<handled, kvars, hvars>>
    \/ \E p \in TProcs : Alone(p) /\ CallStep(p) /\ UNCHANGED <<handled, swept, kvars, hvars>>

\* Calls run one after another and any store call of a refresh may fail.
TokenFaultNext ==
    \/ TokenSeqNext
    \/ \E p \in TProcs : Alone(p) /\ StoreFault(p) /\ UNCHANGED <<handled, swept, kvars, hvars>>

\* Logins, accepted and refused, and registrations.
LoginNext ==
    \/ \E u \in Users : Login(u) /\ UNCHANGED <<handled, swept, kvars, hvars>>
    \/ \E u \in Users : Register(u) /\ UNCHANGED <<handled, swept, kvars, hvars>>
    \/ \E p \in TProcs, e \in Emails, w \in Passwords : LoginRejected(p, e, w) /\ UNCHANGED <<handled, swept, kvars, hvars>>
    \/ \E p \in TProcs : CallEnd(p) /\ UNCHANGED <<handled, swept, kvars, hvars>>

\* The worker that runs guard invocation GuardOf(a) runs handler call a.
GuardOf(a) == IF a = "a1" THEN "r1" ELSE "r2"

\* @UseGuards(RedisRateLimitGuard) on AuthController: the route handler is
\* invoked when canActivate has returned true.
GuardSkipped(r) == rpc[r] \in {"eval", "ttl", "done"}
GuardPassed(r) == rpc[r] = "done" /\ rres[r].outcome = "allowed"

\* The handler of `route` is invoked, once, for the request guard GuardOf(a)
\* let through.
Invoke(a, route) ==
    /\ GuardPassed(GuardOf(a))
    /\ rreq[GuardOf(a)].endpoint = route
    /\ ~handled[GuardOf(a)]
    /\ tpc[a] = "idle"
    /\ handled' = [handled EXCEPT ![GuardOf(a)] = TRUE]
    /\ UNCHANGED <<swept, kvars, hvars>>

\* The response is out: the handler has returned, or the guard threw and the
\* handler was never invoked.
Responded(a) ==
    /\ tpc[a] = "idle"
    /\ handled[GuardOf(a)] \/ rres[GuardOf(a)].outcome = "rejected"

\* Unauthenticated requests from address "8".
PipeRequests == {[NoHttpRequest EXCEPT !.ip = <<56>>]}

PipeInit == handled = [r \in RProcs |-> FALSE]

\* No cleanup has run.
SweepInit == swept = 0

\* Requests to the auth routes: guard first, then the route's handler.
PipeNext ==
    \/ \E a \in TProcs, e \in AuthRoutes, q \in PipeRequests :
          /\ tpc[a] = "idle"
          /\ GuardBegin(GuardOf(a), e, q)
          /\ handled' = [handled EXCEPT ![GuardOf(a)] = FALSE]
          /\ UNCHANGED <<swept, kvars, hvars>>
    \/ \E r \in RProcs : GuardEval(r) /\ UNCHANGED <<handled, swept, kvars, hvars>>
    \/ \E r \in RProcs : GuardEvalError(r) /\ UNCHANGED <<handled, swept, kvars, hvars>>
    \/ \E a \in TProcs, u \in Users : Invoke(a, "POST:/auth/login") /\ Login(u)
    \/ \E a \in TProcs, e \in Emails, w \in Passwords :
          Invoke(a, "POST:/auth/login") /\ LoginRejected(a, e, w)
    \/ \E a \in TProcs, u \in Users : Invoke(a, "POST:/auth/register") /\ Register(u)
    \/ \E a \in TProcs, t \in 0..MaxCalls :
          Invoke(a, "POST:/auth/refresh") /\ RefreshFind(a, t)
    \/ \E a \in TProcs, t \in 0..MaxCalls :
          Invoke(a, "POST:/auth/logout") /\ LogoutFind(a, t)
    \/ \E a \in TProcs : RefreshRevokeFamily(a) /\ UNCHANGED <<handled, swept, kvars, hvars>>
    \/ \E a \in TProcs : RefreshMint(a) /\ UNCHANGED <<handled, swept, kvars, hvars>>
    \/ \E a \in TProcs : RefreshSave(a) /\ UNCHANGED <<handled, swept, kvars, hvars>>
    \/ \E a \in TProcs : LogoutSave(a) /\ UNCHANGED <<handled, swept, kvars, hvars>>
    \/ \E a \in TProcs : CallEnd(a) /\ UNCHANGED <<handled, swept, kvars, hvars>>
    \/ \E a \in TProcs : Responded(a) /\ GuardEnd(GuardOf(a)) /\ UNCHANGED <<handled, swept, kvars, hvars>>

\* ------------------------------------------------------------ tasks service
Owners == {"o1", "o2"}
Statuses == {"PENDING", "COMPLETED"}

\* The owners' ids: UUIDs, as strings of character codes.
\* "7c9e6679-7425-40de-944b-e07fc1f90ae7", "550e8400-e29b-41d4-a716-446655440000"
OwnerId(u) ==
    IF u = "o1"
    THEN
        <<55, 99, 57, 101, 54, 54, 55, 57, 45, 55, 52, 50, 53, 45, 52, 48,
          100, 101, 45, 57, 52, 52, 98, 45, 101, 48, 55, 102, 99, 49, 102,
          57, 48, 97, 101, 55>>
    ELSE
        <<53, 53, 48, 101, 56, 52, 48, 48, 45, 101, 50, 57, 98, 45, 52, 49,
          100, 52, 45, 97, 55, 49, 54, 45, 52, 52, 54, 54, 53, 53, 52, 52,
          48, 48, 48, 48>>

\* private readonly CACHE_TTL = 300
CacheTtl == 300

\* RedisCacheService.prefix: "cache:"
CachePrefix == <<99, 97, 99, 104, 101, 58>>
\* "tasks:list:"
ListPrefix == <<116, 97, 115, 107, 115, 58, 108, 105, 115, 116, 58>>
\* "task:stats:"
StatsPrefix == <<116, 97, 115, 107, 58, 115, 116, 97, 116, 115, 58>>
\* "task:"
TaskPrefix == <<116, 97, 115, 107, 58>>

\* The decimal digits of a task id (ids below 10 here).
IdText(id) == <<48 + id>>

\* JSON.stringify({filters, pagination, userId}) for a request without query
\* parameters: filters = {}, pagination as PaginationUtil.validateParams
\* returns it (undefined members are left out by JSON.stringify):
\* {"filters":{},"pagination":{"page":1,"limit":10,"sortOrder":"DESC"},"userId":"<id>"}
ListParamsJson(u) ==
    <<123, 34, 102, 105, 108, 116, 101, 114, 115, 34, 58, 123, 125, 44, 34,
      112, 97, 103, 105, 110, 97, 116, 105, 111, 110, 34, 58, 123, 34, 112,
      97, 103, 101, 34, 58, 49, 44, 34, 108, 105, 109, 105, 116, 34, 58,
      49, 48, 44, 34, 115, 111, 114, 116, 79, 114, 100, 101, 114, 34, 58,
      34, 68, 69, 83, 67, 34, 125, 44, 34, 117, 115, 101, 114, 73, 100, 34,
      58, 34>>
    \o OwnerId(u) \o <<34, 125>>

\* The base64 alphabet: A-Z a-z 0-9 + /
Base64Char(n) ==
    IF n < 26 THEN 65 + n
    ELSE IF n < 52 THEN 97 + (n - 26)
    ELSE IF n < 62 THEN 48 + (n - 52)
    ELSE IF n = 62 THEN 43 ELSE 47

\* Buffer.from(str).toString('base64'): three bytes to four characters, the
\* last group padded with '='.
RECURSIVE Base64(_)
Base64(bytes) ==
    IF Len(bytes) = 0 THEN <<>>
    ELSE IF Len(bytes) = 1
    THEN <<Base64Char(bytes[1] \div 4), Base64Char((bytes[1] % 4) * 16), 61, 61>>
    ELSE IF Len(bytes) = 2
    THEN <<Base64Char(bytes[1] \div 4),
           Base64Char((bytes[1] % 4) * 16 + bytes[2] \div 16),
           Base64Char((bytes[2] % 16) * 4), 61>>
    ELSE <<Base64Char(bytes[1] \div 4),
           Base64Char((bytes[1] % 4) * 16 + bytes[2] \div 16),
           Base64Char((bytes[2] % 16) * 4 + bytes[3] \div 64),
           Base64Char(bytes[3] % 64)>>
         \o Base64(SubSeq(bytes, 4, Len(bytes)))

\* buildCacheKey(prefix, params): `${prefix}:${base64(JSON.stringify(params))}`
BuildCacheKey(prefix, json) == prefix \o Base64(json)

\* getPrefixedKey
GetPrefixedKey(key) == CachePrefix \o key

\* The keys of the three caches.
ListKey(u) == GetPrefixedKey(BuildCacheKey(ListPrefix, ListParamsJson(u)))
StatsKey(u) == GetPrefixedKey(StatsPrefix \o OwnerId(u))
TaskKey(id) == GetPrefixedKey(TaskPrefix \o IdText(id))

\* text occurs in str at position i.
OccursAt(text, str, i) ==
    /\ i + Len(text) - 1 <= Len(str)
    /\ SubSeq(str, i, i + Len(text) - 1) = text

\* Redis KEYS glob matching for a pattern of the form head*infix*: the key
\* starts with head and infix occurs somewhere after it.
GlobMatch(head, infix, key) ==
    /\ OccursAt(head, key, 1)
    /\ \E i \in (Len(head) + 1)..(Len(key) + 1) : OccursAt(infix, key, i)

\* The store drops an entry when its TTL has run out.
LiveCache == [k \in {x \in DOMAIN cache : Now < cache[x].expires} |-> cache[k]]

\* cacheService.get: the value, or a miss.
CacheHit(c, key) == key \in DOMAIN c

\* cacheService.set(key, value, CACHE_TTL); stamp records how many changes
\* of the owner's tasks had completed when the value was computed.
CacheSet(c, key, value, stamp) ==
    [k \in DOMAIN c \cup {key} |->
        IF k = key THEN [value |-> value, expires |-> Now + CacheTtl, stamp |-> stamp]
        ELSE c[k]]

\* cacheService.delete(key)
CacheDelete(c, key) == [k \in DOMAIN c \ {key} |-> c[k]]

\* cacheService.deletePattern(`tasks:list:*${userId}*`): KEYS, then DEL each.
DeletePattern(c, u) ==
    [k \in {x \in DOMAIN c :
               ~GlobMatch(GetPrefixedKey(ListPrefix), OwnerId(u), x)} |-> c[k]]

\* invalidateCache(userId)
InvalidateCache(c, u) == CacheDelete(DeletePattern(c, u), StatsKey(u))

\* The paginated list query for owner u (at most 10 rows, all of them here).
ListQuery(table, u) ==
    {[id |-> i, status |-> table[i].status] : i \in {x \in DOMAIN table : table[x].userId = u}}

\* The GROUP BY status query for owner u: total and count per status.
StatsQuery(table, u) ==
    [total |-> Cardinality({x \in DOMAIN table : table[x].userId = u}),
     pending |-> Cardinality({x \in DOMAIN table :
                     table[x].userId = u /\ table[x].status = "PENDING"}),
     completed |-> Cardinality({x \in DOMAIN table :
                     table[x].userId = u /\ table[x].status = "COMPLETED"})]

NoServed == [op |-> "", owner |-> "", value |-> {}, fromCache |-> FALSE, stamp |-> 0]

StartOp == ops < MaxCalls /\ ops' = ops + 1

TaskInit ==
    /\ tasks = [i \in {} |-> [userId |-> "", status |-> ""]]
    /\ created = 0
    /\ cache = [k \in {} |-> [value |-> {}, expires |-> 0, stamp |-> 0]]
    /\ served = NoServed
    /\ changes = [u \in Owners |-> 0]
    /\ queued = 0
    /\ ops = 0

\* create: the task is saved, a job is added to the queue, the transaction
\* is committed, then invalidateCache(userId).
Create(u) ==
    /\ StartOp
    /\ created < MaxTasks
    /\ created' = created + 1
    /\ tasks' = [i \in DOMAIN tasks \cup {created + 1} |->
                    IF i = created + 1 THEN [userId |-> u, status |-> "PENDING"]
                    ELSE tasks[i]]
    /\ queued' = queued + 1
    /\ cache' = InvalidateCache(LiveCache, u)
    /\ changes' = [changes EXCEPT ![u] = @ + 1]
    /\ served' = NoServed

\* findAll(filters, pagination, userId): the cached value on a hit, else the
\* query's result, which is cached.
FindAll(u) ==
    /\ StartOp
    /\ LET key == ListKey(u)
       IN  IF CacheHit(LiveCache, key)
           THEN /\ served' = [op |-> "findAll", owner |-> u,
                              value |-> LiveCache[key].value, fromCache |-> TRUE,
                              stamp |-> LiveCache[key].stamp]
                /\ cache' = LiveCache
           ELSE /\ served' = [op |-> "findAll", owner |-> u,
                              value |-> ListQuery(tasks, u), fromCache |-> FALSE,
                              stamp |-> changes[u]]
                /\ cache' = CacheSet(LiveCache, key, ListQuery(tasks, u), changes[u])
    /\ UNCHANGED <<tasks, created, changes, queued>>

\* getStatistics(userId)
GetStatistics(u) ==
    /\ StartOp
    /\ LET key == StatsKey(u)
       IN  IF CacheHit(LiveCache, key)
           THEN /\ served' = [op |-> "getStatistics", owner |-> u,
                              value |-> LiveCache[key].value, fromCache |-> TRUE,
                              stamp |-> LiveCache[key].stamp]
                /\ cache' = LiveCache
           ELSE /\ served' = [op |-> "getStatistics", owner |-> u,
                              value |-> StatsQuery(tasks, u), fromCache |-> FALSE,
                              stamp |-> changes[u]]
                /\ cache' = CacheSet(LiveCache, key, StatsQuery(tasks, u), changes[u])
    /\ UNCHANGED <<tasks, created, changes, queued>>

\* findOne(id, userId) inside update / remove / updateStatus: the task is
\* read (and cached under task:<id> on a miss); any is the call without userId.
FindOneFinds(id, u) == id \in DOMAIN tasks /\ (u = "any" \/ tasks[id].userId = u)
FindOneCache(c, id) ==
    IF CacheHit(c, TaskKey(id)) THEN c
    ELSE CacheSet(c, TaskKey(id), tasks[id], changes[tasks[id].userId])

\* The cache after a change of task id of owner o: task:<id> deleted and
\* invalidateCache(o).
AfterChange(id, o) ==
    InvalidateCache(CacheDelete(FindOneCache(LiveCache, id), TaskKey(id)), o)

\* update(id, dto, userId): findOne, save, a queue job when the status
\* changed, commit, then the invalidations.
Update(id, status, u) ==
    /\ StartOp
    /\ FindOneFinds(id, u)
    /\ tasks' = [tasks EXCEPT ![id].status = status]
    /\ queued' = IF tasks[id].status # status THEN queued + 1 ELSE queued
    /\ cache' = AfterChange(id, tasks[id].userId)
    /\ changes' = [changes EXCEPT ![tasks[id].userId] = @ + 1]
    /\ served' = NoServed
    /\ UNCHANGED created

\* remove(id, userId)
Remove(id, u) ==
    /\ StartOp
    /\ FindOneFinds(id, u)
    /\ tasks' = [i \in DOMAIN tasks \ {id} |-> tasks[i]]
    /\ cache' = AfterChange(id, tasks[id].userId)
    /\ changes' = [changes EXCEPT ![tasks[id].userId] = @ + 1]
    /\ served' = NoServed
    /\ UNCHANGED <<created, queued>>

\* updateStatus(id, status), called by the queue processor.
UpdateStatus(id, status) ==
    /\ StartOp
    /\ FindOneFinds(id, "any")
    /\ tasks' = [tasks EXCEPT ![id].status = status]
    /\ cache' = AfterChange(id, tasks[id].userId)
    /\ changes' = [changes EXCEPT ![tasks[id].userId] = @ + 1]
    /\ served' = NoServed
    /\ UNCHANGED <<created, queued>>

\* A call whose findOne finds no such task: NotFoundException, nothing written.
TaskNotFound(id, u) ==
    /\ StartOp
    /\ ~FindOneFinds(id, u)
    /\ cache' = LiveCache
    /\ served' = NoServed
    /\ UNCHANGED <<tasks, created, changes, queued>>

\* TasksService calls made one after another; the clock advances between them.
TaskNext ==
    \/ TickLifetime /\ UNCHANGED <<handled, swept, kvars, hvars>>
    \/ \E u \in Owners : Create(u) /\ UNCHANGED <<rvars, tvars, handled, swept, hvars>>
    \/ \E u \in Owners : FindAll(u) /\ UNCHANGED <<rvars, tvars, handled, swept, hvars>>
    \/ \E u \in Owners : GetStatistics(u) /\ UNCHANGED <<rvars, tvars, handled, swept, hvars>>
    \/ \E id \in 1..MaxTasks, st \in Statuses, u \in Owners :
          Update(id, st, u) /\ UNCHANGED <<rvars, tvars, handled, swept, hvars>>
    \/ \E id \in 1..MaxTasks, u \in Owners :
          Remove(id, u) /\ UNCHANGED <<rvars, tvars, handled, swept, hvars>>
    \/ \E id \in 1..MaxTasks, st \in Statuses :
          UpdateStatus(id, st) /\ UNCHANGED <<rvars, tvars, handled, swept, hvars>>
    \/ \E id \in 1..MaxTasks, u \in Owners :
          TaskNotFound(id, u) /\ UNCHANGED <<rvars, tvars, handled, swept, hvars>>

Init == RateInit /\ TokenInit /\ PipeInit /\ SweepInit /\ TaskInit /\ RetryInit
Next ==
    \/ RateNext
    \/ IdentNext
    \/ PolicyNext
    \/ TokenNext
    \/ PipeNext
    \/ TaskNext
    \/ ExpiryNext
    \/ RetryNext
    \/ IsolationNext
    \/ RevokeNext
    \/ \E p \in TProcs : StoreFault(p) /\ UNCHANGED <<handled, swept, kvars, hvars>>
    \/ \E p \in TProcs, e \in Emails, w \in Passwords : LoginRejected(p, e, w) /\ UNCHANGED <<handled, swept, kvars, hvars>>

RateSpec == Init /\ [][RateNext]_vars
IdentSpec == Init /\ [][IdentNext]_vars
PolicySpec == Init /\ [][PolicyNext]_vars
TokenSpec == Init /\ [][TokenNext]_vars
TokenSeqSpec == Init /\ [][TokenSeqNext]_vars
TokenFaultSpec == Init /\ [][TokenFaultNext]_vars
LoginSpec == Init /\ [][LoginNext]_vars
PipeSpec == Init /\ [][PipeNext]_vars
ExpirySpec == Init /\ [][ExpiryNext]_vars
RetrySpec == Init /\ [][RetryNext]_vars
IsolationSpec == Init /\ [][IsolationNext]_vars
RevokeSpec == Init /\ [][RevokeNext]_vars
TaskSpec == Init /\ [][TaskNext]_vars
Spec == Init /\ [][Next]_vars

\* ------------------------------------------------------- rate-limit claims
RECURSIVE SumCopies(_, _)
SumCopies(S, B) ==
    IF S = {} THEN 0
    ELSE LET t == CHOOSE x \in S : TRUE
         IN  CopiesIn(t, B) + SumCopies(S \ {t}, B)

\* Admissions on key k with timestamp in the interval (lo, hi].
AdmittedIn(k, lo, hi) ==
    SumCopies({t \in BagToSet(admitLog[k]) : lo < t /\ t <= hi}, admitLog[k])

\* The policies key k has been used under so far.
ConfigsOf(k) == {PolicyOf(e) : e \in usedBy[k]}

\* The script ran for p and its count is final (p is past redis.eval).
Evaluated(p) == rpc[p] \in {"ttl", "done"} /\ rres[p].ran

\* C1 (as claimed): on a key used under one policy (points N, duration D), at
\* most N requests are admitted in any sliding interval of D seconds.
C1_AdmissionBound ==
    \A k \in RKeys : \A cfg \in ConfigsOf(k) :
        ConfigsOf(k) = {cfg} =>
            \A t \in BagToSet(admitLog[k]) :
                AdmittedIn(k, t - cfg.duration * MsPerSecond, t) <= cfg.points

\* C2 (as claimed): every admit decision is the decision of the serial
\* prune-count-add algorithm at the point where the script ran: a request is
\* admitted only if a slot was free, so k free slots admit at most k requests.
C2_SerialDecisions ==
    \A p \in RProcs :
        (rpc[p] = "done" /\ rres[p].ran /\ ~rres[p].storeError
            /\ rres[p].outcome = "allowed") => rres[p].free > 0

\* C3: the window slides: a request that finds fewer than `points` stored
\* entries not older than now - duration is admitted, however many older
\* entries the key holds.
C3_WindowSlides ==
    \A p \in RProcs :
        (Evaluated(p) /\ rres[p].inWindow < RConfig(p).points)
            => (rpc[p] = "done" /\ rres[p].outcome = "allowed")

\* C3 witness: a request admitted although the key held at least `points`
\* entries, all older than the window.
C3_Witness ==
    \E p \in RProcs :
        /\ rpc[p] = "done" /\ rres[p].ran /\ rres[p].outcome = "allowed"
        /\ rres[p].older >= RConfig(p).points
        /\ rres[p].inWindow = 0

\* C4: fail-open: when the store call throws, canActivate returns true: no
\* 429, no error response.
C4_FailOpen ==
    \A p \in RProcs :
        (rpc[p] = "done" /\ rres[p].storeError)
            => (rres[p].outcome = "allowed" /\ rres[p].http.status = 0
                /\ rres[p].exception.status = 0)

\* C4 witness: redis.eval threw and the request was admitted.
C4_Witness ==
    \E p \in RProcs :
        rpc[p] = "done" /\ rres[p].storeError /\ ~rres[p].ran
            /\ rres[p].outcome = "allowed"

\* The script's count for p is over the limit (`allowed` is false).
DecidedReject(p) == Evaluated(p) /\ ~Allowed(rres[p].ret, RConfig(p))

\* C5 (as claimed): a request the check decided to reject is rejected, with
\* retryAfter the key's TTL, or blockDuration when the TTL cannot be read; a
\* failed TTL read never admits it.
C5_RejectionStands ==
    \A p \in RProcs :
        (rpc[p] = "done" /\ DecidedReject(p))
            => /\ rres[p].outcome = "rejected"
               /\ rres[p].exception.response.retryAfter \in
                      {rres[p].ttl, BlockSeconds(RConfig(p))}

\* C5 (amended): when the TTL read returns, the request is rejected with
\* retryAfter = TTL if the TTL is positive, else blockDuration (duration when
\* the policy has none); when the TTL read throws, the request is admitted.
C5_RejectionOrFailOpen ==
    \A p \in RProcs :
        (rpc[p] = "done" /\ DecidedReject(p))
            => IF rres[p].storeError
               THEN rres[p].outcome = "allowed"
               ELSE /\ rres[p].outcome = "rejected"
                    /\ rres[p].exception.status = 429
                    /\ rres[p].ttl > 0 =>
                           rres[p].exception.response.retryAfter = rres[p].ttl
                    /\ rres[p].ttl <= 0 =>
                           rres[p].exception.response.retryAfter =
                               (IF RConfig(p).blockDuration # 0
                                THEN RConfig(p).blockDuration
                                ELSE RConfig(p).duration)

\* C5 witness: a rejection whose TTL read found no positive TTL and fell back
\* to the block duration.
C5_Witness ==
    \E p \in RProcs :
        rpc[p] = "done" /\ DecidedReject(p) /\ rres[p].outcome = "rejected"
            /\ rres[p].ttl <= 0

\* C6 (as claimed): the response sent for a rate-limit rejection has status
\* 429 and a body with a machine-readable reason and an integer retryAfter.
C6_RejectionBody ==
    \A p \in RProcs :
        (rpc[p] = "done" /\ rres[p].outcome = "rejected")
            => /\ rres[p].http.status = 429
               /\ rres[p].http.body.error = "Too Many Requests"
               /\ "retryAfter" \in DOMAIN rres[p].http.body
               /\ rres[p].http.body.retryAfter \in Int

\* ----------------------------------------------------------- token claims
\* Call p is a refresh that has returned.
Refreshed(p) == tpc[p] = "done" /\ treq[p].op = "refresh"

\* The unrevoked rows of family f.
HeadsOf(f) == {h \in DOMAIN rows : rows[h].tokenFamily = f /\ ~rows[h].isRevoked}

C8_SingleRotation ==
    \A t \in 1..minted : Cardinality(SuccessorsOf(t)) <= 1

\* C9 (as claimed): of two concurrent refreshes that both read the same token
\* as usable, one succeeds, the other fails as reuse, and when both have
\* returned every row of the family is revoked.
C9_LoserRevokesFamily ==
    \A p, q \in TProcs :
        (p # q /\ Refreshed(p) /\ Refreshed(q)
            /\ treq[p].token = treq[q].token /\ treq[p].usable /\ treq[q].usable)
        => /\ {tres[p].kind, tres[q].kind} = {"ok", "reused"}
           /\ HeadsOf(treq[p].entity.tokenFamily) = {}

\* C10 (as claimed): in every reachable state each token family holds at most
\* one unrevoked row.
C10_OneHeadPerFamily ==
    \A f \in 1..families : Cardinality(HeadsOf(f)) <= 1

\* The rows of family f.
RowsOf(table, f) == {h \in DOMAIN table : table[h].tokenFamily = f}

\* C11: a refresh that presents a revoked token fails as reuse, and in the
\* state in which it returns every stored row of the presented row's family is
\* revoked, the head and every deeper descendant included.
C11_ReuseRevokesFamily ==
    [][\A p \in TProcs :
          (tpc[p] = "revokeFamily" /\ tpc'[p] = "done")
              => /\ tres'[p].kind = "reused"
                 /\ tres'[p].refreshToken = 0
                 /\ \A h \in RowsOf(rows', treq[p].entity.tokenFamily) :
                        rows'[h].isRevoked]_vars

\* C11 witness: T0 was rotated to T1 and T1 to T2; an unexpired T0 was then
\* replayed, and T2 (two rotations down, never rotated itself) is revoked.
C11_Witness ==
    \E p \in TProcs : \E t1, t2 \in 1..minted :
        /\ Refreshed(p) /\ tres[p].kind = "reused" /\ ~treq[p].expired
        /\ <<treq[p].token, t1>> \in rotations /\ <<t1, t2>> \in rotations
        /\ treq[p].entity.tokenFamily \in caught
        /\ HashToken(t2) \in DOMAIN rows
        /\ rows[HashToken(t2)].isRevoked
        /\ rows[HashToken(t2)].replacedByToken = NullHash

\* C12 (as claimed): a refresh that presents a stored token whose expiresAt
\* is at or before the current time fails with the expired outcome, whether
\* the row is unused, rotated or logged out.
C12_ExpiredFailsAsExpired ==
    \A p \in TProcs :
        (Refreshed(p) /\ treq[p].expired) => tres[p].kind = "expired"

\* Call p is a logout that has returned.
LoggedOutCall(p) == tpc[p] = "done" /\ treq[p].op = "logout"

\* C13: logout writes the presented token's row only: that row ends revoked
\* with revokedAt = now, every other row (of the same family too) is left as
\* it was, no family is marked as caught in reuse; a logout with an unknown
\* token writes nothing.
C13_LogoutFrame ==
    [][\A p \in TProcs :
          /\ (tpc[p] = "logoutSave" /\ tpc'[p] = "done") =>
                LET h == HashToken(treq[p].token)
                IN  /\ DOMAIN rows' = DOMAIN rows \cup {h}
                    /\ rows'[h].isRevoked /\ rows'[h].revokedAt = Now
                    /\ \A x \in DOMAIN rows \ {h} : rows'[x] = rows[x]
                    /\ caught' = caught
          /\ (tpc[p] = "idle" /\ tpc'[p] = "done" /\ treq'[p].op = "logout") =>
                rows' = rows /\ caught' = caught]_vars

\* C13 witness: a logout has revoked the presented row while another row of
\* the same family is still unrevoked.
C13_Witness ==
    \E p \in TProcs :
        /\ LoggedOutCall(p) /\ treq[p].found
        /\ HashToken(treq[p].token) \in DOMAIN rows
        /\ rows[HashToken(treq[p].token)].isRevoked
        /\ \E x \in HeadsOf(treq[p].entity.tokenFamily) : x # HashToken(treq[p].token)

\* C14: fail-closed: a refresh one of whose store calls (lookup, family
\* revocation, successor insert, save of the presented row) failed ends in an
\* error: no token is returned, the successor it may have inserted is never
\* handed to a client, and no rotation is recorded as successful.
C14_FailClosed ==
    \A p \in TProcs :
        (Refreshed(p) /\ treq[p].storeError)
            => /\ tres[p].kind = "error"
               /\ tres[p].refreshToken = 0
               /\ treq[p].newToken \notin known
               /\ \A x \in 1..minted : <<treq[p].token, x>> \in rotations =>
                      x # treq[p].newToken

\* C14 witness: the save of the presented row failed after the successor had
\* been inserted, and the call ended in an error.
C14_Witness ==
    \E p \in TProcs :
        /\ Refreshed(p) /\ treq[p].storeError /\ tres[p].kind = "error"
        /\ treq[p].newToken # 0
        /\ HashToken(treq[p].newToken) \in DOMAIN rows

\* Call p is a refresh that was refused.
Refused(p) == Refreshed(p) /\ tres[p].kind \in RefreshFailures

\* C15 (as claimed): the responses of two refused refreshes have the same
\* status 401 and the same message, whichever way each was refused (unknown,
\* expired or reused token).
C15_FailuresIndistinguishable ==
    \A p, q \in TProcs :
        (Refused(p) /\ Refused(q))
            => /\ RefreshResponse(p).status = 401
               /\ RefreshResponse(q).status = 401
               /\ RefreshResponse(p).body.message = RefreshResponse(q).body.message

\* Call p is a login that was refused.
LoginRefused(p) == tpc[p] = "done" /\ treq[p].op = "login"

\* C16: the responses of two refused logins have the same status 401, the
\* same message and the same error name, whether the email belongs to no
\* account or the account exists and the password is wrong.
C16_LoginFailuresIndistinguishable ==
    \A p, q \in TProcs :
        (LoginRefused(p) /\ LoginRefused(q))
            => /\ LoginResponse(p).status = 401
               /\ LoginResponse(p).status = LoginResponse(q).status
               /\ LoginResponse(p).body.message = LoginResponse(q).body.message
               /\ LoginResponse(p).body.error = LoginResponse(q).body.error

\* C16 witness: one login was refused for an unknown email and another for a
\* wrong password on an existing account.
C16_Witness ==
    \E p, q \in TProcs :
        /\ LoginRefused(p) /\ ~treq[p].found
        /\ LoginRefused(q) /\ treq[q].found /\ treq[q].email \in registered
        /\ ~PasswordValid(treq[q].email, treq[q].password)

\* ---------------------------------------------------- rate-limit identity
\* Guard invocation p has resolved the identity of its request.
Identified(p) == rpc[p] # "idle"

\* An identifier fragment made from a raw value, as it is or hashed.
From(raw) == {raw, HashString(raw)}

\* C17: the identity is chosen by strict priority: the subject id when the
\* request has one; else the x-api-key header when it has one; else the
\* network address.
C17_IdentityPriority ==
    \A p \in RProcs : Identified(p) =>
        LET r  == rreq[p].request
            id == rreq[p].identifier
        IN  /\ Truthy(r.userId) => id[1] = "user" /\ id[2] \in From(r.userId)
            /\ (~Truthy(r.userId) /\ Truthy(r.apiKey)) =>
                   id[1] = "apikey" /\ id[2] \in From(r.apiKey)
            /\ (~Truthy(r.userId) /\ ~Truthy(r.apiKey)) =>
                   id[1] = "ip" /\ id[2] \in From(ClientIp(r))

\* C17 witness: a request without subject id, with an API key and with
\* network addresses, checked under the API key.
C17_Witness ==
    \E p \in RProcs :
        /\ rpc[p] = "done" /\ rres[p].ran
        /\ ~Truthy(rreq[p].request.userId) /\ Truthy(rreq[p].request.apiKey)
        /\ Truthy(rreq[p].request.ip) /\ Truthy(rreq[p].request.forwardedFor)
        /\ rreq[p].identifier[1] = "apikey"

\* The raw identity values request r carries.
RawValues(r) == {r.userId, r.apiKey, ClientIp(r)} \ {Absent}

\* C18 (as claimed): whichever source is selected, the identifier fragment of
\* the store key is the hash of a raw identity value of the request and is
\* never a raw value itself.
C18_KeyHoldsHash ==
    \A p \in RProcs : Identified(p) =>
        /\ RKey(p)[2][2] \in {HashString(v) : v \in RawValues(rreq[p].request)}
        /\ RKey(p)[2][2] \notin RawValues(rreq[p].request)

\* ----------------------------------------------------- rotation and issue
\* C19: the step in which a refresh with token T, run without interference,
\* returns successfully leaves T's row revoked with revokedAt = now and
\* replacedByToken = the hash of the successor, and the successor's row
\* unrevoked, unexpired and in T's family; the token returned is the successor,
\* a token no client held before, not T.
C19_RotationEffect ==
    [][\A p \in TProcs :
          (tpc[p] = "save" /\ tpc'[p] = "done" /\ tres'[p].kind = "ok") =>
              LET t  == treq[p].token
                  n  == tres'[p].refreshToken
                  h  == HashToken(t)
                  hn == HashToken(n)
              IN  /\ n # 0 /\ n # t /\ n \notin known
                  /\ h \in DOMAIN rows' /\ hn \in DOMAIN rows'
                  /\ rows'[h].isRevoked
                  /\ rows'[h].revokedAt = Now /\ rows'[h].revokedAt # NullDate
                  /\ rows'[h].replacedByToken = hn
                  /\ ~rows'[hn].isRevoked
                  /\ ~(rows'[hn].expiresAt <= Now)
                  /\ rows'[hn].tokenFamily = rows[h].tokenFamily
                  /\ rows'[h].tokenFamily = rows[h].tokenFamily]_vars

\* C19 witness: a refresh has returned a successor; the presented row is
\* revoked and points to the successor's unrevoked row.
C19_Witness ==
    \E p \in TProcs :
        /\ Refreshed(p) /\ tres[p].kind = "ok"
        /\ HashToken(treq[p].token) \in DOMAIN rows
        /\ HashToken(tres[p].refreshToken) \in DOMAIN rows
        /\ rows[HashToken(treq[p].token)].isRevoked
        /\ rows[HashToken(treq[p].token)].replacedByToken =
               HashToken(tres[p].refreshToken)
        /\ ~rows[HashToken(tres[p].refreshToken)].isRevoked

\* C20: a login or register (a step that generates a token outside any
\* refresh call) stores a row whose family no row of the table had before.
C20_IssueOpensFamily ==
    [][(minted' = minted + 1 /\ tpc' = tpc) =>
          /\ HashToken(minted') \in DOMAIN rows'
          /\ \A h \in DOMAIN rows :
                 rows[h].tokenFamily # rows'[HashToken(minted')].tokenFamily]_vars

\* C20 witness: a token was issued (not rotated into) after an earlier
\* family had been revoked, and its row is in another family.
C20_Witness ==
    \E t1, t2 \in 1..minted :
        /\ t1 < t2 /\ t2 \in known
        /\ \A t \in 1..minted : <<t, t2>> \notin rotations
        /\ HashToken(t1) \in DOMAIN rows /\ HashToken(t2) \in DOMAIN rows
        /\ rows[HashToken(t1)].isRevoked
        /\ rows[HashToken(t1)].tokenFamily \in caught
        /\ rows[HashToken(t1)].tokenFamily # rows[HashToken(t2)].tokenFamily

C22_FamilyRevocationTerminal ==
    \A f \in caught : \A h \in RowsOf(rows, f) :
        rows[h].isRevoked /\ ~IsValid(rows[h])

\* C23 (as claimed): a refresh that presents a token with no stored row, or
\* a stored token whose expiresAt is at or before now (revoked or not), leaves
\* the token store unchanged in every one of its steps: no row is created,
\* revoked or modified and no family revocation runs.
C23_NotFoundExpiredFrame ==
    [][\A p \in TProcs :
          LET req == IF tpc[p] = "idle" THEN treq'[p] ELSE treq[p]
          IN  (/\ tpc[p] # "done" /\ tpc'[p] # tpc[p]
               /\ req.op = "refresh"
               /\ ~req.found \/ req.expired)
              => rows' = rows /\ caught' = caught]_vars

\* C24 (as claimed): the insert of the successor and the revocation of the
\* presented token are all-or-nothing: after a refresh that failed on a store
\* write, the store does not hold an unrevoked successor row next to a
\* presented row that is still unrevoked.
C24_RotationAllOrNothing ==
    \A p \in TProcs :
        (Refreshed(p) /\ treq[p].storeError)
            => ~(/\ treq[p].newToken # 0
                 /\ HashToken(treq[p].newToken) \in DOMAIN rows
                 /\ ~rows[HashToken(treq[p].newToken)].isRevoked
                 /\ HashToken(treq[p].token) \in DOMAIN rows
                 /\ ~rows[HashToken(treq[p].token)].isRevoked)

\* ------------------------------------------------------ window bookkeeping
\* Worker p's step is a run of the script that ends in an admission.
ScriptAdmits(p) ==
    rpc[p] = "eval" /\ rpc'[p] = "done" /\ rres'[p].ran /\ rres'[p].outcome = "allowed"

\* The entries of p's key that the script's pruning keeps.
KeptFor(p) == Pruned(Live(RKey(p)), WindowStart(rreq[p].now, RConfig(p)))

\* C25 (as claimed): every admitted request adds exactly one new entry to its
\* key's window: after the admission the key holds one entry more than the
\* pruning kept, also when another request for the key carried the same
\* timestamp.
C25_OneEntryPerAdmission ==
    [][\A p \in RProcs :
          ScriptAdmits(p) =>
              Cardinality(zset'[RKey(p)]) = Cardinality(KeptFor(p)) + 1]_vars

\* C26 (as claimed): pruning removes the entries with timestamp strictly less
\* than windowStart = now - duration: the count a check decides on is the
\* number of stored entries with timestamp >= windowStart, an entry at exactly
\* windowStart included.
C26_PruneStrictlyOlder ==
    \A p \in RProcs :
        Evaluated(p) => RConfig(p).points - rres[p].free = rres[p].inWindow

\* Worker p's step is a run of the script.
ScriptRuns(p) == rpc[p] = "eval" /\ rres'[p].ran

\* C27: only a check that finds count < points adds an entry and sets the
\* key's expiry: a check that finds count >= points leaves in the key exactly
\* the entries its pruning kept, leaves the key's expiry as it was, and
\* touches no other key.
C27_FullWindowFrame ==
    [][\A p \in RProcs :
          ScriptRuns(p) =>
              /\ Cardinality(KeptFor(p)) >= RConfig(p).points =>
                    /\ zset'[RKey(p)] = KeptFor(p)
                    /\ expireAt'[RKey(p)] = expireAt[RKey(p)]
              /\ Cardinality(KeptFor(p)) < RConfig(p).points =>
                    /\ zset'[RKey(p)] = KeptFor(p) \cup {rreq[p].now}
                    /\ expireAt'[RKey(p)] =
                           clock + BlockSeconds(RConfig(p)) * MsPerSecond
              /\ \A k \in RKeys \ {RKey(p)} :
                    zset'[k] = zset[k] /\ expireAt'[k] = expireAt[k]]_vars

\* C27 witness: the script ran on a key whose window was full after it had
\* pruned at least one entry, and added nothing.
C27_Witness ==
    \E p \in RProcs :
        /\ Evaluated(p) /\ rres[p].free <= 0
        /\ rres[p].inWindow + rres[p].older > RConfig(p).points - rres[p].free
        /\ rreq[p].now \notin zset[RKey(p)]

\* ------------------------------------------------------ family revocation
\* C28: family revocation is idempotent: the step in which reuse detection
\* revokes a family leaves every already revoked row as it was (flag and
\* earlier revokedAt kept), leaves a fully revoked family's rows unchanged,
\* and running revokeTokenFamily again on its result changes nothing.
C28_RevocationIdempotent ==
    [][\A p \in TProcs :
          (tpc[p] = "revokeFamily" /\ tpc'[p] = "done" /\ tres'[p].kind = "reused") =>
              LET f == treq[p].entity.tokenFamily
              IN  /\ DOMAIN rows' = DOMAIN rows
                  /\ \A h \in DOMAIN rows : rows[h].isRevoked => rows'[h] = rows[h]
                  /\ HeadsOf(f) = {} => rows' = rows
                  /\ RevokeTokenFamily(rows', f) = rows'
                  /\ RevokeTokenFamily(RevokeTokenFamily(rows, f), f) =
                         RevokeTokenFamily(rows, f)]_vars

\* C28 witness: a revoked token of a family that reuse detection had already
\* revoked at an earlier time was presented again; the family's rows still
\* carry the earlier revokedAt.
C28_Witness ==
    \E p \in TProcs :
        /\ Refreshed(p) /\ tres[p].kind = "reused" /\ treq[p].caughtBefore
        /\ RowsOf(rows, treq[p].entity.tokenFamily) # {}
        /\ \A h \in RowsOf(rows, treq[p].entity.tokenFamily) :
               rows[h].isRevoked /\ rows[h].revokedAt # NullDate
                   /\ rows[h].revokedAt < Now

\* ------------------------------------------------------------ quota pools
\* The quota pool of a route: its policy's keyPrefix, or the route itself
\* (method and path) when the policy has none.
PoolOf(e) == IF PolicyOf(e).keyPrefix # "" THEN PolicyOf(e).keyPrefix ELSE e

\* C29: a check reads and writes the window of its pool and identity only:
\* the count it decides on is that of the pool's window, it changes no other
\* window, and two routes have the same pool exactly when they are the same
\* route or carry the same keyPrefix.
C29_QuotaPools ==
    [][\A p \in RProcs :
          ScriptRuns(p) =>
              LET e    == rreq[p].endpoint
                  pool == <<PoolOf(e), rreq[p].identifier>>
              IN  /\ \A k \in RKeys :
                        (zset'[k] # zset[k] \/ expireAt'[k] # expireAt[k]) => k = pool
                  /\ rres'[p].free = RConfig(p).points -
                        Cardinality(Pruned(Live(pool), WindowStart(rreq[p].now, RConfig(p))))
                  /\ \A e2 \in PolicyRoutes :
                        (PoolOf(e2) = PoolOf(e)) <=>
                            \/ e2 = e
                            \/ /\ PolicyOf(e).keyPrefix # ""
                               /\ PolicyOf(e2).keyPrefix = PolicyOf(e).keyPrefix]_vars

\* C29 witness: a request on GET /report found the shared "admin" window
\* holding an entry admitted on GET /analytics, while the same identity's
\* request on a route without keyPrefix sits in a window of its own.
C29_Witness ==
    \E p \in RProcs :
        /\ Evaluated(p) /\ rreq[p].endpoint = "GET:/report"
        /\ rres[p].free < RConfig(p).points
        /\ usedBy[RKey(p)] = {"GET:/analytics", "GET:/report"}
        /\ BagCardinality(admitLog[RKey(p)]) = 2
        /\ \E k \in RKeys \ {RKey(p)} :
               /\ k[2] = RKey(p)[2] /\ k[1] \in TaskRoutes \cup PlainRoutes
               /\ usedBy[k] = {k[1]} /\ zset[k] # {}

\* --------------------------------------------------------- applied policy
\* What the claimed precedence gives for route e: the route-level values when
\* the handler has a configuration, else the controller-level ones, else 100
\* points per 60 seconds; the block time is blockDuration, or the duration
\* when the policy gives none.
Claimed(e) ==
    LET h == HandlerConfig(e)
        c == ClassConfig(e)
        points   == IF h # NoConfig THEN h.points
                    ELSE IF c # NoConfig THEN c.points ELSE 100
        duration == IF h # NoConfig THEN h.duration
                    ELSE IF c # NoConfig THEN c.duration ELSE 60
        block    == IF h # NoConfig THEN h.blockDuration
                    ELSE IF c # NoConfig THEN c.blockDuration ELSE 0
    IN  [points |-> points, duration |-> duration,
         block |-> IF block # 0 THEN block ELSE duration]

\* C30: a check applies the route-level policy when the handler has one, else
\* the controller-level policy, else 100 points per 60 seconds: it counts the
\* entries newer than now - duration against that policy's points; when it
\* adds an entry the key expires blockDuration seconds later, or duration
\* seconds when the policy has no blockDuration; and a rejection whose TTL
\* read gives no positive value carries that same number as retryAfter.
C30_AppliedPolicy ==
    [][\A p \in RProcs :
          LET pol  == Claimed(rreq[p].endpoint)
              k    == RKey(p)
              kept == Pruned(Live(k), rreq[p].now - pol.duration * MsPerSecond)
          IN  /\ ScriptRuns(p) =>
                    /\ rres'[p].free = pol.points - Cardinality(kept)
                    /\ zset'[k] \in {kept, kept \cup {rreq[p].now}}
                    /\ Cardinality(kept) < pol.points =>
                          expireAt'[k] = clock + pol.block * MsPerSecond
              /\ (rpc[p] = "ttl" /\ rres'[p].outcome = "rejected") =>
                    rres'[p].exception.response.retryAfter =
                        (IF rres'[p].ttl > 0 THEN rres'[p].ttl ELSE pol.block)]_vars

\* C30 witness: one identity has been admitted on a route with only a
\* controller-level policy (expiry after its duration, 3 s), on a route of
\* the same controller with its own policy (expiry after its blockDuration,
\* 4 s) and on a route with no policy at all (default, expiry after 60 s).
C30_Witness ==
    \E i \in Identifiers :
        LET kc == <<"GET:/tasks", i>>
            kh == <<"POST:/tasks/batch", i>>
            kd == <<"GET:/plain", i>>
        IN  /\ zset[kc] # {} /\ zset[kh] # {} /\ zset[kd] # {}
            /\ \E m \in zset[kc] : expireAt[kc] = m + 3 * MsPerSecond
            /\ \E m \in zset[kh] : expireAt[kh] = m + 4 * MsPerSecond
            /\ \E m \in zset[kd] : expireAt[kd] = m + 60 * MsPerSecond
            /\ \E p \in RProcs : Evaluated(p) /\ rreq[p].endpoint = "GET:/plain"
                                  /\ rres[p].free = 100

\* A rejection under a policy without blockDuration whose TTL read found the
\* key gone: retryAfter falls back to the policy's duration.
FallbackToDuration ==
    \E p \in RProcs :
        /\ rpc[p] = "done" /\ rres[p].outcome = "rejected" /\ rres[p].ttl <= 0
        /\ RConfig(p).blockDuration = 0
        /\ rres[p].exception.response.retryAfter = RConfig(p).duration

\* ------------------------------------------------------------------ cleanup
\* C31: cleanupExpiredTokens deletes exactly the rows whose expiresAt is
\* before now and returns their number: every usable row stays, every
\* remaining row is left as it was (revoked flag included), so a token that
\* a refresh would have accepted before the sweep is accepted after it.
C31_CleanupFrame ==
    [][(calls' = calls + 1 /\ tpc' = tpc /\ minted' = minted
            /\ (DOMAIN rows' # DOMAIN rows \/ swept' # swept)) =>
          /\ DOMAIN rows \ DOMAIN rows' = {h \in DOMAIN rows : rows[h].expiresAt < Now}
          /\ DOMAIN rows' \subseteq DOMAIN rows
          /\ swept' = Cardinality(DOMAIN rows \ DOMAIN rows')
          /\ \A h \in DOMAIN rows' : rows'[h] = rows[h]
          /\ \A h \in DOMAIN rows :
                 IsValid(rows[h]) => h \in DOMAIN rows' /\ IsValid(rows'[h])]_vars

\* C31 witness: a cleanup has deleted at least one row and returned the
\* count, and a usable token issued before it is still stored.
C31_Witness ==
    /\ swept > 0
    /\ \E t \in known : /\ HashToken(t) \in DOMAIN rows
                         /\ IsValid(rows[HashToken(t)])
    /\ \E t \in 1..minted : HashToken(t) \notin DOMAIN rows
    /\ \A h \in DOMAIN rows : ~(rows[h].expiresAt < Now)

\* -------------------------------------------------------------- task caches
\* C32 (as claimed): a findAll or getStatistics for owner u that is served
\* from the cache returns a value computed after the latest completed
\* create, update, remove or updateStatus of a task of u: never the result
\* cached before that change.
C32_CacheInvalidated ==
    served.fromCache => served.stamp = changes[served.owner]

\* ------------------------------------------------------------ window size
\* C33: a key used under one policy never stores more than `points` entries,
\* in any reachable state and under any interleaving of checks.
C33_WindowBounded ==
    \A k \in RKeys : \A cfg \in ConfigsOf(k) :
        ConfigsOf(k) = {cfg} => Cardinality(zset[k]) <= cfg.points

\* C33 witness: a key used under one policy of two points holds two entries
\* after three requests on it were let through.
C33_Witness ==
    \E k \in RKeys : \E cfg \in ConfigsOf(k) :
        /\ ConfigsOf(k) = {cfg} /\ cfg.points = 2
        /\ Cardinality(zset[k]) = cfg.points
        /\ BagCardinality(admitLog[k]) = 3

\* ------------------------------------------------------------ key expiry
\* C34 (as claimed): on a key used under one policy, an entry that is still
\* inside the sliding window (younger than `duration` seconds) has not been
\* discarded by the key's expiry, whatever the policy's blockDuration.
C34_ExpiryKeepsWindow ==
    \A k \in RKeys : \A cfg \in ConfigsOf(k) :
        ConfigsOf(k) = {cfg} =>
            \A m \in zset[k] :
                clock < m + cfg.duration * MsPerSecond => m \in Live(k)

\* ------------------------------------------------------------ retryAfter
\* The request being evaluated was made on the key of the last 429 answer, at
\* least retryAfter seconds after that answer; no request was evaluated on the
\* key in between.
Retrying(p) ==
    /\ rpc[p] = "eval"
    /\ retry # NoRetry
    /\ retry.key = RKey(p)
    /\ rreq[p].now >= retry.at + retry.after * MsPerSecond

\* C35 (as claimed): a request made on the key of a rejection retryAfter
\* seconds or more after the rejection, with no request on the key in
\* between, is admitted.
C35_RetryAdmitted ==
    [][\A p \in RProcs :
          (Retrying(p) /\ rpc'[p] # "eval") =>
              rpc'[p] = "done" /\ rres'[p].outcome = "allowed"]_vars

\* ------------------------------------------------------------ isolation
\* C36 (as claimed): two requests on one endpoint from callers of different
\* raw identities are checked against different store keys, so neither reads
\* or changes the other's window.
C36_CallersIsolated ==
    \A p, q \in RProcs :
        (/\ rpc[p] # "idle" /\ rpc[q] # "idle"
         /\ rreq[p].endpoint = rreq[q].endpoint
         /\ RawIdentity(rreq[p].request) # RawIdentity(rreq[q].request))
            => RKey(p) # RKey(q)

\* ------------------------------------------------------------ monotonic revocation
\* Token t can be used: its row is in the table, not revoked and not expired.
Usable(t) == HashToken(t) \in DOMAIN rows /\ IsValid(rows[HashToken(t)])

\* C37: in every step, a row that is revoked and still in the table stays
\* revoked, and a generated token that is not usable does not become usable.
C37_RevocationMonotonic ==
    [][/\ \A h \in DOMAIN rows \cap DOMAIN rows' :
            rows[h].isRevoked => rows'[h].isRevoked
       /\ \A t \in 1..minted : ~Usable(t) => ~Usable(t)']_vars

\* C37 witness: a logout has saved the entity it had read as unrevoked over
\* a row that a refresh had rotated in the meantime; the row is revoked.
C37_Witness ==
    \E p \in TProcs :
        /\ tpc[p] = "done" /\ treq[p].op = "logout" /\ treq[p].found
        /\ ~treq[p].entity.isRevoked
        /\ SuccessorsOf(treq[p].token) # {}
        /\ HashToken(treq[p].token) \in DOMAIN rows
        /\ rows[HashToken(treq[p].token)].isRevoked

\* ------------------------------------------------------------ replacedByToken
\* Token hashes that a completed rotation replaced.
RotatedHashes == {HashToken(r[1]) : r \in rotations}

\* C38 (as claimed): a row whose replacedByToken is set is revoked and the
\* field is the hash of a stored row of the same family; a revoked row that no
\* rotation replaced has no replacedByToken.
C38_ReplacedByLinked ==
    \A h \in DOMAIN rows :
        /\ rows[h].replacedByToken # NullHash =>
              /\ rows[h].isRevoked
              /\ rows[h].replacedByToken \in DOMAIN rows
              /\ rows[rows[h].replacedByToken].tokenFamily = rows[h].tokenFamily
        /\ (rows[h].isRevoked /\ h \notin RotatedHashes) =>
              rows[h].replacedByToken = NullHash

\* ------------------------------------------------------------ revoke all
\* The token a chain of completed rotations started from.
RECURSIVE RootOf(_)
RootOf(t) ==
    LET from == {r \in rotations : r[2] = t}
    IN  IF from = {} THEN t ELSE RootOf((CHOOSE r \in from : TRUE)[1])

\* C39 (as claimed): once revokeAllUserTokens(u) has completed, a usable
\* token of u does not descend from a token that existed before the call,
\* refreshes in flight during the call included.
C39_RevokeAllFinal ==
    \A u \in Users : \A t \in 1..minted :
        (Usable(t) /\ rows[HashToken(t)].userId = u) => RootOf(t) > cutoff[u]

====
